---- MODULE Spec2Model ----
(***************************************************************************)
(* Library kiosk backend (Biblioteca-totem): users, book catalog and the   *)
(* loan life cycle, as implemented by the Flask handlers of                *)
(* backend/app/api and the SQLAlchemy models of backend/app/models.        *)
(*                                                                         *)
(* One action per HTTP handler.  An action covers the whole request: the   *)
(* authentication / role gate of deps.py, the handler's checks in source   *)
(* order, the writes, the commit, and the response.  The response of the   *)
(* last request is kept in the variable last.                              *)
(*                                                                         *)
(* Time is counted in days.  Primary keys are the positions in the         *)
(* sequences users, books and loans (autoincrement ids starting at 1).     *)
(* Columns that no handler reads when deciding (titles, names, notes,      *)
(* timestamps) are left out.                                               *)
(***************************************************************************)
EXTENDS Integers, Sequences, FiniteSets, TLC

VARIABLES users, books, loans, now, last

vars == <<users, books, loans, now, last>>

-----------------------------------------------------------------------------
(* Bounds of the model *)

\* Spec: the loan life cycle
NumStudents == 1
NumBooks == 2
MaxLoans == 2
\* the clock moves in steps of TickDays up to MaxTime
TickDays == 22
MaxTime == 22
\* SpecRentLimit: one student at the kiosk and a larger catalog
LimitBooks == 4
LimitLoans == 4
\* SpecCatalog: the loan life cycle of one book under catalog maintenance
CatalogBooks == 1
CatalogLoans == 2
\* SpecUsers: user administration around the loan of one book
UsersBooks == 1
UsersLoans == 1
\* SpecBooks: deactivation of books and the read side of the catalog
ShelfBooks == 2
ShelfLoans == 1
\* SpecAuth: tokens over a clock that moves in steps of AuthTickDays
AuthBooks == 1
AuthLoans == 1
\* SpecRent: rent requests against books and users that come and go
RentBooks == 2
RentLoans == 2
\* SpecAccess: the loans of one user as another user requests them
AccessBooks == 1
AccessLoans == 1
AuthTickDays == 4
AuthMaxTime == 8
\* SpecPages: the pages of a catalog of PageBooks books
PageBooks == 5
\* SpecKiosk: the loans of one book as the kiosk scans and extends them
KioskBooks == 1
KioskLoans == 1
\* SpecAccounts: logins and passwords of at most AccountsUsers users
AccountsBooks == 1
AccountsUsers == 3
\* SpecStartup: server starts and seed runs between edits of the users
ConcurrentBooks == 1
ConcurrentLoans == 1

BarcodeBooks == 1
BarcodeBooksMax == 3

ErrorsBooks == 1
ErrorsBooksMax == 2
ErrorsUsers == 3

StartupStudents == 1
StartupBooks == 1
StartupUsers == 3

-----------------------------------------------------------------------------
(* Configuration (config.py) *)

DEFAULT_LOAN_DAYS == 14
MAX_EXTENSIONS == 2
EXTENSION_DAYS == 7
MAX_BOOKS_PER_USER == 3
ADMIN_EMAIL == "admin@uai.edu"
ADMIN_PASSWORD == "admin123"

-----------------------------------------------------------------------------
(* Enumerations and Optional values *)

UserRole == {"STUDENT", "ADMIN"}
BookStatus == {"AVAILABLE", "LOANED", "RESERVED", "MAINTENANCE"}
LoanStatus == {"ACTIVE", "RETURNED", "OVERDUE", "EXTENDED"}

\* None for an Optional[datetime] column, and for an Optional[int] user reference
NoDate == 0 - 1
NoUser == 0

\* the three statuses list_active_loans and deactivate_user count as "active"
NonTerminal == {"ACTIVE", "EXTENDED", "OVERDUE"}

\* str.upper() on the request strings the model sends
upper(s) ==
    CASE s = "available" -> "AVAILABLE"
      [] s = "loaned" -> "LOANED"
      [] s = "maintenance" -> "MAINTENANCE"
      [] s = "active" -> "ACTIVE"
      [] s = "returned" -> "RETURNED"
      [] s = "admin" -> "ADMIN"
      [] s = "student" -> "STUDENT"
      [] OTHER -> s

UserIds == 1..Len(users)
BookIds == 1..Len(books)
LoanIds == 1..Len(loans)

\* request values of the optional "extension_days" field (<<>> is absent)
ExtensionDaysInputs == {<<>>, <<0>>}

\* request values of the optional "status" field of a book update
StatusInputs == {<<>>, <<"available">>, <<"LOANED">>, <<"MAINTENANCE">>, <<"BROKEN">>}

\* request values of the optional "role" and "is_active" fields of a user update
RoleInputs == {<<>>, <<"admin">>, <<"STUDENT">>, <<"TEACHER">>}
ActiveInputs == {<<>>, <<TRUE>>, <<FALSE>>}

-----------------------------------------------------------------------------
(* Responses: the HTTP status and the "error" field of the JSON body *)

Resp(code, error) == [code |-> code, error |-> error]

-----------------------------------------------------------------------------
(* Request middleware (deps.py).  A gate answers the request itself, or     *)
(* passes it on to the handler (Pass).                                      *)

Pass == Resp(0, "")

is_admin(u) == u.role = "ADMIN"

\* require_auth without the test of user.is_active
require_auth_NoActiveCheck(caller) ==
    IF caller \notin UserIds THEN Resp(401, "Authentication required")
    ELSE Pass

require_auth(caller) ==
    IF caller \notin UserIds THEN Resp(401, "Authentication required")
    ELSE IF ~users[caller].is_active THEN Resp(401, "Account deactivated")
    ELSE Pass

require_role(caller, required_role) ==
    IF require_auth(caller) # Pass THEN require_auth(caller)
    ELSE IF users[caller].role # required_role
        THEN Resp(403, "Insufficient permissions")
    ELSE Pass

\* require_admin without the role gate
require_admin_AnyRole(caller) == require_auth(caller)

require_admin(caller) == require_role(caller, "ADMIN")

require_student_or_admin(caller) ==
    IF require_auth(caller) # Pass THEN require_auth(caller)
    ELSE IF users[caller].role \notin {"STUDENT", "ADMIN"}
        THEN Resp(403, "Insufficient permissions")
    ELSE Pass

-----------------------------------------------------------------------------
(* Model methods (models/book.py, models/loan.py) *)

\* is_available without the status test
is_available_AnyStatus(b) == b.is_active

is_available(b) == b.status = "AVAILABLE" /\ b.is_active

is_loaned(b) == b.status = "LOANED"

is_overdue(l) ==
    IF l.status = "RETURNED" THEN FALSE ELSE now > l.due_date

\* can_extend without the status test
can_extend_AnyStatus(l) ==
    /\ l.extensions_count < MAX_EXTENSIONS
    /\ ~is_overdue(l)

\* can_extend with the status test widened to EXTENDED
can_extend_ActiveOrExtended(l) ==
    /\ l.status \in {"ACTIVE", "EXTENDED"}
    /\ l.extensions_count < MAX_EXTENSIONS
    /\ ~is_overdue(l)

can_extend(l) ==
    /\ l.status = "ACTIVE"
    /\ l.extensions_count < MAX_EXTENSIONS
    /\ ~is_overdue(l)

\* days or config.EXTENSION_DAYS: None and 0 are both falsy
extension_days(days) ==
    IF days = <<>> THEN EXTENSION_DAYS
    ELSE IF days[1] = 0 THEN EXTENSION_DAYS
    ELSE days[1]

\* extend_loan adding the day count to the counter instead of 1
Loan_extend_loan_CountDays(l, days) ==
    [l EXCEPT !.due_date = @ + extension_days(days),
              !.extensions_count = @ + extension_days(days),
              !.status = "EXTENDED"]

\* the loan after Loan.extend_loan returned True
Loan_extend_loan(l, days) ==
    [l EXCEPT !.due_date = @ + extension_days(days),
              !.extensions_count = @ + 1,
              !.status = "EXTENDED"]

\* the loan after Loan.return_book; the book it frees is set by Book_returned
\* return_book without the returner
Loan_return_book_NoReturner(l, returned_by_id) ==
    [l EXCEPT !.status = "RETURNED", !.return_date = now]

Loan_return_book(l, returned_by_id) ==
    [l EXCEPT !.status = "RETURNED",
              !.return_date = now,
              !.returned_by = IF returned_by_id # 0 THEN returned_by_id ELSE @]

Book_returned(b) == [b EXCEPT !.status = "AVAILABLE"]

\* Book.current_loan: some loan of the book in status ACTIVE, or 0 (None)
current_loan_candidates(book_id) ==
    {i \in LoanIds : loans[i].book_id = book_id /\ loans[i].status = "ACTIVE"}

-----------------------------------------------------------------------------
(* POST /loans/rent *)

\* the statuses rent_book counts against the loan limit and the duplicate check
RentCountedStatuses == {"ACTIVE", "EXTENDED"}

active_loans_count(user_id) ==
    Cardinality({i \in LoanIds : /\ loans[i].user_id = user_id
                                 /\ loans[i].status \in RentCountedStatuses})

existing_loan(user_id, book_id) ==
    \E i \in LoanIds : /\ loans[i].user_id = user_id
                       /\ loans[i].book_id = book_id
                       /\ loans[i].status \in RentCountedStatuses

rent_response(caller, book_id, user_id) ==
    IF require_student_or_admin(caller) # Pass
        THEN require_student_or_admin(caller)
    ELSE IF user_id # caller /\ ~is_admin(users[caller])
        THEN Resp(403, "Insufficient permissions")
    ELSE IF book_id \notin BookIds THEN Resp(404, "Book not found")
    ELSE IF ~books[book_id].is_active THEN Resp(404, "Book not found")
    ELSE IF ~is_available(books[book_id]) THEN Resp(400, "Book not available")
    ELSE IF user_id \notin UserIds THEN Resp(404, "User not found")
    ELSE IF ~users[user_id].is_active THEN Resp(404, "User not found")
    ELSE IF active_loans_count(user_id) >= MAX_BOOKS_PER_USER
        THEN Resp(400, "Loan limit exceeded")
    ELSE IF existing_loan(user_id, book_id) THEN Resp(400, "Book already loaned")
    ELSE Resp(201, "")

\* the new loan with the borrower recorded as its creator
new_loan_CreatedByBorrower(caller, book_id, user_id) ==
    [user_id |-> user_id,
     book_id |-> book_id,
     loan_date |-> now,
     due_date |-> now + DEFAULT_LOAN_DAYS,
     return_date |-> NoDate,
     status |-> "ACTIVE",
     extensions_count |-> 0,
     created_by |-> user_id,
     returned_by |-> NoUser]

new_loan(caller, book_id, user_id) ==
    [user_id |-> user_id,
     book_id |-> book_id,
     loan_date |-> now,
     due_date |-> now + DEFAULT_LOAN_DAYS,
     return_date |-> NoDate,
     status |-> "ACTIVE",
     extensions_count |-> 0,
     created_by |-> caller,
     returned_by |-> NoUser]

rent_book(caller, book_id, user_id) ==
    LET r == rent_response(caller, book_id, user_id) IN
    /\ IF r.code = 201
         THEN /\ loans' = Append(loans, new_loan(caller, book_id, user_id))
              /\ books' = [books EXCEPT ![book_id].status = "LOANED"]
         ELSE UNCHANGED <<loans, books>>
    /\ last' = [op |-> "rent", caller |-> caller, code |-> r.code, error |-> r.error,
                book_id |-> book_id, user_id |-> user_id]
    /\ UNCHANGED <<users, now>>

-----------------------------------------------------------------------------
(* POST /loans/return *)

\* the status test of return_book without OVERDUE
ReturnableStatuses_NoOverdue == {"ACTIVE", "EXTENDED"}

ReturnableStatuses == {"ACTIVE", "EXTENDED", "OVERDUE"}

\* return_response without the owner-or-admin test
return_response_NoOwnerCheck(caller, loan_id) ==
    IF require_student_or_admin(caller) # Pass
        THEN require_student_or_admin(caller)
    ELSE IF loan_id \notin LoanIds THEN Resp(404, "Loan not found")
    ELSE IF loans[loan_id].status \notin ReturnableStatuses
        THEN Resp(400, "Invalid loan status")
    ELSE Resp(200, "")

return_response(caller, loan_id) ==
    IF require_student_or_admin(caller) # Pass
        THEN require_student_or_admin(caller)
    ELSE IF loan_id \notin LoanIds THEN Resp(404, "Loan not found")
    ELSE IF loans[loan_id].user_id # caller /\ ~is_admin(users[caller])
        THEN Resp(403, "Insufficient permissions")
    ELSE IF loans[loan_id].status \notin ReturnableStatuses
        THEN Resp(400, "Invalid loan status")
    ELSE Resp(200, "")

return_book(caller, loan_id) ==
    LET r == return_response(caller, loan_id) IN
    /\ IF r.code = 200
         THEN /\ loans' = [loans EXCEPT ![loan_id] = Loan_return_book(@, caller)]
              /\ books' = [books EXCEPT ![loans[loan_id].book_id] = Book_returned(@)]
         ELSE UNCHANGED <<loans, books>>
    /\ last' = [op |-> "return", caller |-> caller, code |-> r.code, error |-> r.error,
                loan_id |-> loan_id]
    /\ UNCHANGED <<users, now>>

-----------------------------------------------------------------------------
(* POST /loans/extend *)

\* f"loan status is {loan.status.value}"
status_reason(st) ==
    CASE st = "EXTENDED" -> "loan status is EXTENDED"
      [] st = "OVERDUE" -> "loan status is OVERDUE"
      [] st = "RETURNED" -> "loan status is RETURNED"
      [] OTHER -> "loan status is ACTIVE"

\* the reasons the 400 message lists, in the order the handler appends them
extend_reasons(l) ==
    (IF l.status # "ACTIVE" THEN <<status_reason(l.status)>> ELSE <<>>)
    \o (IF is_overdue(l) THEN <<"loan is overdue">> ELSE <<>>)
    \o (IF l.extensions_count >= MAX_EXTENSIONS
          THEN <<"maximum extensions (2) reached">> ELSE <<>>)

extend_response(caller, loan_id) ==
    IF require_student_or_admin(caller) # Pass
        THEN require_student_or_admin(caller)
    ELSE IF loan_id \notin LoanIds THEN Resp(404, "Loan not found")
    ELSE IF loans[loan_id].user_id # caller /\ ~is_admin(users[caller])
        THEN Resp(403, "Insufficient permissions")
    ELSE IF ~can_extend(loans[loan_id]) THEN Resp(400, "Cannot extend loan")
    ELSE Resp(200, "")

extend_loan(caller, loan_id, days) ==
    LET r == extend_response(caller, loan_id) IN
    /\ IF r.code = 200
         THEN loans' = [loans EXCEPT ![loan_id] = Loan_extend_loan(@, days)]
         ELSE UNCHANGED loans
    /\ last' = [op |-> "extend", caller |-> caller, code |-> r.code, error |-> r.error,
                loan_id |-> loan_id, days |-> days,
                reasons |-> IF r.code = 400 THEN extend_reasons(loans[loan_id])
                            ELSE <<>>]
    /\ UNCHANGED <<users, books, now>>

-----------------------------------------------------------------------------
(* GET /loans/overdue *)

\* the overdue query selecting ACTIVE loans only
OverdueQueryStatuses_ActiveOnly == {"ACTIVE"}

\* the statuses the overdue query selects
OverdueQueryStatuses == {"ACTIVE", "EXTENDED"}

overdue_query ==
    {i \in LoanIds : /\ loans[i].status \in OverdueQueryStatuses
                     /\ loans[i].due_date < now}

\* ORDER BY due_date ASC: every listing of S in non-decreasing due date (the
\* database is free in the order of equal due dates)
order_by_due_date(S) ==
    {q \in [1..Cardinality(S) -> S] :
        /\ \A i, j \in 1..Cardinality(S) : i # j => q[i] # q[j]
        /\ \A i, j \in 1..Cardinality(S) :
              i < j => loans[q[i]].due_date <= loans[q[j]].due_date}

get_overdue_loans(caller) ==
    LET g == require_admin(caller) IN
    /\ IF g # Pass
         THEN /\ UNCHANGED loans
              /\ last' = [op |-> "overdue", caller |-> caller, code |-> g.code,
                          error |-> g.error, overdue_loans |-> <<>>]
         ELSE /\ loans' = [i \in LoanIds |->
                              IF i \in overdue_query
                                THEN [loans[i] EXCEPT !.status = "OVERDUE"]
                                ELSE loans[i]]
              /\ \E q \in order_by_due_date(overdue_query) :
                    last' = [op |-> "overdue", caller |-> caller, code |-> 200,
                             error |-> "", overdue_loans |-> q]
    /\ UNCHANGED <<users, books, now>>

-----------------------------------------------------------------------------
(* GET /loans/active, GET /loans/user/<id>, GET /loans/<id> *)

\* a query without ORDER BY: the database is free in the order of the rows
RECURSIVE any_order(_)
any_order(S) ==
    IF S = {} THEN {<<>>}
    ELSE UNION {{<<x>> \o q : q \in any_order(S \ {x})} : x \in S}

\* request.args.get("per_page", 20, type=int) capped at 100
per_page_default == 20
per_page_cap == 100

min(a, b) == IF a < b THEN a ELSE b

\* query.paginate(page, per_page, error_out=False) on the rows q: with
\* error_out=False a page below 1 becomes 1 and a page size below 1 becomes
\* 20; the items are q[LIMIT per_page OFFSET (page - 1) * per_page]; pages is
\* ceil(total / per_page), 0 for no rows
paginate(q, page, per_page) ==
    LET p == IF page < 1 THEN 1 ELSE page
        s == IF per_page < 1 THEN 20 ELSE per_page
        pages == IF Len(q) = 0 THEN 0 ELSE (Len(q) + s - 1) \div s
    IN  [items |-> SubSeq(q, (p - 1) * s + 1, min(p * s, Len(q))),
         total |-> Len(q),
         pages |-> pages,
         has_next |-> p < pages,
         has_prev |-> p > 1]

\* request.args.get("page", 1, type=int), and
\* min(request.args.get("per_page", 20, type=int), 100); <<>> is an absent
\* argument
page_arg(page) == IF page = <<>> THEN 1 ELSE page[1]

per_page_arg_NoCap(per_page) ==
    IF per_page = <<>> THEN per_page_default ELSE per_page[1]

per_page_arg(per_page) ==
    min(IF per_page = <<>> THEN per_page_default ELSE per_page[1], per_page_cap)

\* "if user_id:" on request.args.get(..., type=int): absent (<<>>) and 0 are falsy
truthy(arg) == arg # <<>> /\ arg[1] # 0

list_active_query(caller, user_id, book_id) ==
    {i \in LoanIds :
        /\ loans[i].status \in {"ACTIVE", "EXTENDED", "OVERDUE"}
        /\ truthy(book_id) => loans[i].book_id = book_id[1]
        /\ IF truthy(user_id) THEN loans[i].user_id = user_id[1]
           ELSE IF ~is_admin(users[caller]) THEN loans[i].user_id = caller
           ELSE TRUE}

list_active_loans(caller, user_id, book_id) ==
    LET g == require_student_or_admin(caller) IN
    /\ IF g # Pass
         THEN last' = [op |-> "list_active", caller |-> caller, code |-> g.code,
                       error |-> g.error, user_id |-> user_id, book_id |-> book_id]
         ELSE \E q \in order_by_due_date(list_active_query(caller, user_id, book_id)) :
                last' = [op |-> "list_active", caller |-> caller, code |-> 200,
                         error |-> "", user_id |-> user_id, book_id |-> book_id,
                         loans |-> q, total |-> Len(q)]
    /\ UNCHANGED <<users, books, loans, now>>

get_loan_response(caller, loan_id) ==
    IF require_student_or_admin(caller) # Pass
        THEN require_student_or_admin(caller)
    ELSE IF loan_id \notin LoanIds THEN Resp(404, "Loan not found")
    ELSE IF loans[loan_id].user_id # caller /\ ~is_admin(users[caller])
        THEN Resp(403, "Insufficient permissions")
    ELSE Resp(200, "")

get_loan(caller, loan_id) ==
    LET r == get_loan_response(caller, loan_id) IN
    /\ last' = [op |-> "get_loan", caller |-> caller, code |-> r.code,
                error |-> r.error, loan_id |-> loan_id,
                loan |-> IF r.code = 200 THEN <<loans[loan_id]>> ELSE <<>>]
    /\ UNCHANGED <<users, books, loans, now>>

\* ORDER BY loan_date DESC: every listing of S in non-increasing loan date
order_by_loan_date_desc(S) ==
    {q \in any_order(S) :
        \A i, j \in 1..Cardinality(S) :
            i < j => loans[q[i]].loan_date >= loans[q[j]].loan_date}

get_user_loans_query(user_id, status) ==
    {i \in LoanIds : /\ loans[i].user_id = user_id
                     /\ (status # <<>> /\ status[1] # "") =>
                            loans[i].status = upper(status[1])}

get_user_loans_response(caller, user_id, status) ==
    IF require_student_or_admin(caller) # Pass
        THEN require_student_or_admin(caller)
    ELSE IF user_id # caller /\ ~is_admin(users[caller])
        THEN Resp(403, "Insufficient permissions")
    ELSE IF status # <<>> /\ status[1] # "" /\ upper(status[1]) \notin LoanStatus
        THEN Resp(400, "Invalid status")
    ELSE Resp(200, "")

\* a request for the first page with the default page size
get_user_loans(caller, user_id, status) ==
    LET r == get_user_loans_response(caller, user_id, status) IN
    /\ IF r.code = 200
         THEN \E q \in order_by_loan_date_desc(get_user_loans_query(user_id, status)) :
                last' = [op |-> "user_loans", caller |-> caller, code |-> 200,
                         error |-> "", user_id |-> user_id, status |-> status,
                         loans |-> paginate(q, page_arg(<<>>), per_page_arg(<<>>)).items,
                         total |-> Len(q)]
         ELSE last' = [op |-> "user_loans", caller |-> caller, code |-> r.code,
                       error |-> r.error, user_id |-> user_id, status |-> status]
    /\ UNCHANGED <<users, books, loans, now>>

-----------------------------------------------------------------------------
(* PUT /books/<id> and DELETE /books/<id> *)

update_book_response(caller, book_id, status) ==
    IF require_admin(caller) # Pass THEN require_admin(caller)
    ELSE IF book_id \notin BookIds THEN Resp(404, "Book not found")
    ELSE IF status # <<>> /\ upper(status[1]) \notin BookStatus
        THEN Resp(400, "Invalid status")
    ELSE Resp(200, "")

\* the book in the session after the setattr loop over updatable_fields (of
\* which the model keeps the title) and, for a known status, the status change
update_book_session(b, title, status) ==
    [b EXCEPT !.title = IF title # <<>> THEN title[1] ELSE @,
              !.status = IF status # <<>> /\ upper(status[1]) \in BookStatus
                           THEN upper(status[1]) ELSE @]

\* the books table after a request that writes the session at every response
update_book_table_CommitAlways(r, book_id, title, status) ==
    IF r.code \in {200, 400}
        THEN [books EXCEPT ![book_id] = update_book_session(@, title, status)]
        ELSE books

\* the books table after the request: db.session.commit() writes the session;
\* a response that returns before the commit leaves the changes in the
\* session, which ends with the request
update_book_table(r, book_id, title, status) ==
    IF r.code = 200
        THEN [books EXCEPT ![book_id] = update_book_session(@, title, status)]
        ELSE books

update_book(caller, book_id, title, status) ==
    LET r == update_book_response(caller, book_id, status) IN
    /\ books' = update_book_table(r, book_id, title, status)
    /\ last' = [op |-> "update_book", caller |-> caller, code |-> r.code,
                error |-> r.error, book_id |-> book_id, title |-> title,
                status |-> status]
    /\ UNCHANGED <<users, loans, now>>

delete_book_response(caller, book_id) ==
    IF require_admin(caller) # Pass THEN require_admin(caller)
    ELSE IF book_id \notin BookIds THEN Resp(404, "Book not found")
    ELSE IF is_loaned(books[book_id]) THEN Resp(400, "Cannot delete book")
    ELSE Resp(200, "")

delete_book(caller, book_id) ==
    LET r == delete_book_response(caller, book_id) IN
    /\ IF r.code = 200
         THEN books' = [books EXCEPT ![book_id] =
                           [@ EXCEPT !.is_active = FALSE, !.status = "MAINTENANCE"]]
         ELSE UNCHANGED books
    /\ last' = [op |-> "delete_book", caller |-> caller, code |-> r.code,
                error |-> r.error, book_id |-> book_id]
    /\ UNCHANGED <<users, loans, now>>

\* the unique index of the books table on barcode rejects the rows bs
books_IntegrityError(bs) ==
    \E i, j \in 1..Len(bs) : i # j /\ bs[i].barcode = bs[j].barcode

\* str.strip() on the strings a create request sends
strip(s) ==
    CASE s = " 1234567890128 " -> "1234567890128"
      [] s = "  " -> ""
      [] OTHER -> s

\* the book row create_book adds: title and barcode without surrounding blanks
new_book(title, barcode) ==
    [barcode |-> strip(barcode), title |-> strip(title), status |-> "AVAILABLE",
     is_active |-> TRUE]

\* POST /books/ without the unique index on barcode
create_book_response_NoUniqueIndex(caller, title, barcode) ==
    IF require_admin(caller) # Pass THEN require_admin(caller)
    ELSE IF strip(title) = "" \/ strip(barcode) = ""
        THEN Resp(400, "Missing required fields")
    ELSE Resp(201, "")

\* POST /books/ with an author
create_book_response(caller, title, barcode) ==
    IF require_admin(caller) # Pass THEN require_admin(caller)
    ELSE IF strip(title) = "" \/ strip(barcode) = ""
        THEN Resp(400, "Missing required fields")
    ELSE IF books_IntegrityError(Append(books, new_book(title, barcode)))
        THEN Resp(409, "Book already exists")
    ELSE Resp(201, "")

create_book(caller, title, barcode) ==
    LET r == create_book_response(caller, title, barcode) IN
    /\ IF r.code = 201
         THEN books' = Append(books, new_book(title, barcode))
         ELSE UNCHANGED books
    /\ last' = [op |-> "create_book", caller |-> caller, code |-> r.code,
                error |-> r.error, title |-> title, barcode |-> barcode]
    /\ UNCHANGED <<users, loans, now>>

-----------------------------------------------------------------------------
(* GET /books/scan/<barcode>, GET /books/<id>, GET /books/ *)

\* the query of scan_book without the is_active filter
scan_query_AnyBook(barcode) ==
    {b \in BookIds : books[b].barcode = barcode}

scan_query(barcode) ==
    {b \in BookIds : books[b].barcode = barcode /\ books[b].is_active}

\* book_data["current_loan"]: the loan id, or 0 when the key is absent
current_loan_field(book_id) ==
    IF is_loaned(books[book_id]) /\ current_loan_candidates(book_id) # {}
        THEN current_loan_candidates(book_id)
        ELSE {0}

_get_available_actions(b) ==
    <<"info">> \o (IF b.status = "AVAILABLE" THEN <<"rent">>
                   ELSE IF b.status = "LOANED" THEN <<"return", "extend">>
                   ELSE <<>>)

scan_book_response(caller, barcode) ==
    IF require_student_or_admin(caller) # Pass
        THEN require_student_or_admin(caller)
    ELSE IF barcode = "" THEN Resp(400, "Invalid barcode")
    ELSE IF scan_query(barcode) = {} THEN Resp(404, "Book not found")
    ELSE Resp(200, "")

scan_book(caller, barcode) ==
    LET r == scan_book_response(caller, barcode) IN
    /\ IF r.code = 200
         THEN \E b \in scan_query(barcode) : \E l \in current_loan_field(b) :
                last' = [op |-> "scan", caller |-> caller, code |-> 200, error |-> "",
                         barcode |-> barcode, book_id |-> b, book |-> books[b],
                         current_loan |-> l,
                         available_actions |-> _get_available_actions(books[b])]
         ELSE last' = [op |-> "scan", caller |-> caller, code |-> r.code,
                       error |-> r.error, barcode |-> barcode]
    /\ UNCHANGED <<users, books, loans, now>>

get_book_response(caller, book_id) ==
    IF require_student_or_admin(caller) # Pass
        THEN require_student_or_admin(caller)
    ELSE IF book_id \notin BookIds THEN Resp(404, "Book not found")
    ELSE IF ~books[book_id].is_active THEN Resp(404, "Book not found")
    ELSE Resp(200, "")

get_book(caller, book_id) ==
    LET r == get_book_response(caller, book_id) IN
    /\ IF r.code = 200
         THEN \E l \in current_loan_field(book_id) :
                last' = [op |-> "get_book", caller |-> caller, code |-> 200,
                         error |-> "", book_id |-> book_id, book |-> books[book_id],
                         current_loan |-> l]
         ELSE last' = [op |-> "get_book", caller |-> caller, code |-> r.code,
                       error |-> r.error, book_id |-> book_id]
    /\ UNCHANGED <<users, books, loans, now>>

\* the listing query of a request without a search term
list_books_query(status) ==
    {b \in BookIds : /\ books[b].is_active
                     /\ status # <<>> => books[b].status = upper(status[1])}

list_books_response(caller, status) ==
    IF require_student_or_admin(caller) # Pass
        THEN require_student_or_admin(caller)
    ELSE IF status # <<>> /\ status[1] # "" /\ upper(status[1]) \notin BookStatus
        THEN Resp(400, "Invalid status")
    ELSE Resp(200, "")

\* a listing request without a search term
list_books(caller, page, per_page, status) ==
    LET r == list_books_response(caller, status)
        st == IF status = <<"">> THEN <<>> ELSE status
    IN
    /\ IF r.code = 200
         THEN \E q \in any_order(list_books_query(st)) :
                LET pagination == paginate(q, page_arg(page), per_page_arg(per_page))
                IN  last' = [op |-> "list_books", caller |-> caller, code |-> 200,
                             error |-> "", status |-> status,
                             page_requested |-> page,
                             per_page_requested |-> per_page,
                             books |-> pagination.items,
                             page |-> page_arg(page),
                             per_page |-> per_page_arg(per_page),
                             total |-> pagination.total,
                             pages |-> pagination.pages,
                             has_next |-> pagination.has_next,
                             has_prev |-> pagination.has_prev]
         ELSE last' = [op |-> "list_books", caller |-> caller, code |-> r.code,
                       error |-> r.error, status |-> status,
                       page_requested |-> page, per_page_requested |-> per_page]
    /\ UNCHANGED <<users, books, loans, now>>

-----------------------------------------------------------------------------
(* PUT /users/<id>, DELETE /users/<id>, POST /users/<id>/activate *)

\* the unique indexes of the users table (email; student_id, where NULLs do
\* not collide) reject the rows us: the commit raises IntegrityError
users_IntegrityError(us) ==
    \E i, j \in 1..Len(us) :
        /\ i # j
        /\ \/ us[i].email = us[j].email
           \/ us[i].student_id # <<>> /\ us[i].student_id = us[j].student_id

\* the user in the session after the setattr loop over updatable_fields (of
\* which the model keeps email and student_id), the role and the active flag
update_user_session(u, email, student_id, role, is_active) ==
    [u EXCEPT !.email = IF email # <<>> THEN email[1] ELSE @,
              !.student_id = IF student_id # <<>> THEN student_id ELSE @,
              !.role = IF role # <<>> /\ upper(role[1]) \in UserRole
                         THEN upper(role[1]) ELSE @,
              !.is_active = IF is_active # <<>> THEN is_active[1] ELSE @]

update_user_response(caller, user_id, email, student_id, role, is_active) ==
    IF require_admin(caller) # Pass THEN require_admin(caller)
    ELSE IF user_id \notin UserIds THEN Resp(404, "User not found")
    ELSE IF role # <<>> /\ upper(role[1]) \notin UserRole
        THEN Resp(400, "Invalid role")
    ELSE IF users_IntegrityError(
                [users EXCEPT ![user_id] =
                    update_user_session(@, email, student_id, role, is_active)])
        THEN Resp(409, "Update failed")
    ELSE Resp(200, "")

\* the users table after a request that writes the session at every response
update_user_table_CommitAlways(r, user_id, email, student_id, role, is_active) ==
    IF r.code \in {200, 400}
        THEN [users EXCEPT ![user_id] =
                 update_user_session(@, email, student_id, role, is_active)]
        ELSE users

\* the users table after the request: db.session.commit() writes the session;
\* the 400 returns before the commit and the 409 rolls it back
update_user_table(r, user_id, email, student_id, role, is_active) ==
    IF r.code = 200
        THEN [users EXCEPT ![user_id] =
                 update_user_session(@, email, student_id, role, is_active)]
        ELSE users

update_user(caller, user_id, email, student_id, role, is_active) ==
    LET r == update_user_response(caller, user_id, email, student_id, role, is_active)
    IN
    /\ users' = update_user_table(r, user_id, email, student_id, role, is_active)
    /\ last' = [op |-> "update_user", caller |-> caller, code |-> r.code,
                error |-> r.error, user_id |-> user_id, email |-> email,
                student_id |-> student_id, role |-> role, is_active |-> is_active]
    /\ UNCHANGED <<books, loans, now>>

\* the loans deactivate_user counts
user_active_loans(user_id) ==
    Cardinality({i \in LoanIds : /\ loans[i].user_id = user_id
                                 /\ loans[i].status \in {"ACTIVE", "EXTENDED", "OVERDUE"}})

deactivate_user_response(caller, user_id) ==
    IF require_admin(caller) # Pass THEN require_admin(caller)
    ELSE IF user_id \notin UserIds THEN Resp(404, "User not found")
    ELSE IF user_active_loans(user_id) > 0 THEN Resp(400, "Cannot deactivate user")
    ELSE Resp(200, "")

deactivate_user(caller, user_id) ==
    LET r == deactivate_user_response(caller, user_id) IN
    /\ IF r.code = 200
         THEN users' = [users EXCEPT ![user_id].is_active = FALSE]
         ELSE UNCHANGED users
    /\ last' = [op |-> "deactivate_user", caller |-> caller, code |-> r.code,
                error |-> r.error, user_id |-> user_id]
    /\ UNCHANGED <<books, loans, now>>

activate_user_response(caller, user_id) ==
    IF require_admin(caller) # Pass THEN require_admin(caller)
    ELSE IF user_id \notin UserIds THEN Resp(404, "User not found")
    ELSE Resp(200, "")

activate_user(caller, user_id) ==
    LET r == activate_user_response(caller, user_id) IN
    /\ IF r.code = 200
         THEN users' = [users EXCEPT ![user_id].is_active = TRUE]
         ELSE UNCHANGED users
    /\ last' = [op |-> "activate_user", caller |-> caller, code |-> r.code,
                error |-> r.error, user_id |-> user_id]
    /\ UNCHANGED <<books, loans, now>>

-----------------------------------------------------------------------------
(* JSON web tokens (core/security.py).  A token is its payload together     *)
(* with sig, which tells whether the signature was made with                 *)
(* JWT_SECRET_KEY.  The clock of the model counts days; iat and exp are in   *)
(* seconds.                                                                  *)

\* password.encode('utf-8') raises UnicodeEncodeError on a lone surrogate; the
\* model writes the JSON string "\ud800secret" as "<ud800>secret"
encode_raises(password) == password = "<ud800>secret"

\* bcrypt: the hash of a password verifies that password and no other
hash_password(password) == <<"bcrypt", password>>

verify_password(password, hashed_password) ==
    hashed_password = <<"bcrypt", password>>

JWT_ACCESS_TOKEN_EXPIRES == 30 * 60
JWT_REFRESH_TOKEN_EXPIRES == 7 * 24 * 3600

utcnow == now * 24 * 3600

\* additional_claims: <<>> for none, <<role>> for {"role": role}
create_access_token(user_id, additional_claims) ==
    [sig |-> TRUE, user_id |-> user_id, type |-> "access", iat |-> utcnow,
     exp |-> utcnow + JWT_ACCESS_TOKEN_EXPIRES,
     role |-> IF additional_claims = <<>> THEN "" ELSE additional_claims[1]]

create_refresh_token(user_id) ==
    [sig |-> TRUE, user_id |-> user_id, type |-> "refresh", iat |-> utcnow,
     exp |-> utcnow + JWT_REFRESH_TOKEN_EXPIRES, role |-> ""]

\* jwt.decode: <<payload>>, or <<>> (None) for a bad signature or an expired token
decode_token(token) ==
    IF ~token.sig THEN <<>>
    ELSE IF token.exp <= utcnow THEN <<>>
    ELSE <<token>>

\* the user id of a valid access token, or 0 (None)
get_user_from_token(token) ==
    IF decode_token(token) # <<>> /\ decode_token(token)[1].type = "access"
        THEN decode_token(token)[1].user_id
        ELSE 0

\* refresh_access_token accepting a payload of any type
refresh_access_token_AnyType(refresh_token) ==
    IF decode_token(refresh_token) # <<>> /\ decode_token(refresh_token)[1].user_id # 0
        THEN <<create_access_token(decode_token(refresh_token)[1].user_id, <<>>)>>
        ELSE <<>>

\* <<the new access token>>, or <<>> (None)
refresh_access_token(refresh_token) ==
    IF /\ decode_token(refresh_token) # <<>>
       /\ decode_token(refresh_token)[1].type = "refresh"
       /\ decode_token(refresh_token)[1].user_id # 0
        THEN <<create_access_token(decode_token(refresh_token)[1].user_id, <<>>)>>
        ELSE <<>>

\* deps.get_current_user: the id of the stored user the Authorization header
\* names, or 0 (None).  authorization is <<>> (no Bearer header) or <<token>>.
get_current_user(authorization) ==
    IF authorization = <<>> THEN 0
    ELSE IF get_user_from_token(authorization[1]) \in UserIds
        THEN get_user_from_token(authorization[1])
    ELSE 0

-----------------------------------------------------------------------------
(* POST /auth/login, POST /auth/refresh, GET /auth/me, POST /auth/logout *)

\* str.lower().strip() on the email strings the model sends
lower_strip(s) ==
    CASE s = " Admin@UAI.edu " -> "admin@uai.edu"
      [] s = "Juan.Perez@uai.edu" -> "juan.perez@uai.edu"
      [] s = " Ana.Soto@UAI.edu " -> "ana.soto@uai.edu"
      [] s = "  " -> ""
      [] OTHER -> s

\* query(User).filter(User.email == email).first(): the user id, or 0 (None)
user_by_email(email) ==
    IF \E u \in UserIds : users[u].email = email
        THEN CHOOSE u \in UserIds : users[u].email = email
        ELSE 0

login_response(email, password) ==
    LET user == user_by_email(lower_strip(email)) IN
    IF lower_strip(email) = "" \/ password = "" THEN Resp(400, "Invalid credentials")
    ELSE IF user = 0 THEN Resp(401, "Invalid credentials")
    ELSE IF encode_raises(password) THEN Resp(500, "Internal Server Error")
    ELSE IF ~verify_password(password, users[user].password_hash)
        THEN Resp(401, "Invalid credentials")
    ELSE IF ~users[user].is_active THEN Resp(401, "Account deactivated")
    ELSE Resp(200, "")

login(email, password) ==
    LET r == login_response(email, password)
        user == user_by_email(lower_strip(email))
    IN
    /\ IF r.code = 200
         THEN last' = [op |-> "login", caller |-> 0, code |-> 200, error |-> "",
                       email |-> email, password |-> password, user_id |-> user,
                       access_token |->
                           create_access_token(user, <<users[user].role>>),
                       refresh_token |-> create_refresh_token(user)]
         ELSE last' = [op |-> "login", caller |-> 0, code |-> r.code,
                       error |-> r.error, email |-> email, password |-> password]
    /\ UNCHANGED <<users, books, loans, now>>

refresh(refresh_token) ==
    /\ IF refresh_access_token(refresh_token) = <<>>
         THEN last' = [op |-> "refresh", caller |-> 0, code |-> 401,
                       error |-> "Invalid refresh token",
                       refresh_token |-> refresh_token]
         ELSE last' = [op |-> "refresh", caller |-> 0, code |-> 200, error |-> "",
                       refresh_token |-> refresh_token,
                       access_token |-> refresh_access_token(refresh_token)[1]]
    /\ UNCHANGED <<users, books, loans, now>>

\* GET /auth/me
me(authorization) ==
    LET caller == get_current_user(authorization)
        r == IF require_auth(caller) # Pass THEN require_auth(caller) ELSE Resp(200, "")
    IN
    /\ last' = [op |-> "me", caller |-> caller, code |-> r.code, error |-> r.error,
                authorization |-> authorization]
    /\ UNCHANGED <<users, books, loans, now>>

\* logout that closes the account of the caller
logout_ClosingAccount(authorization) ==
    LET caller == get_current_user(authorization)
        r == IF require_auth(caller) # Pass THEN require_auth(caller) ELSE Resp(200, "")
    IN
    /\ last' = [op |-> "logout", caller |-> caller, code |-> r.code, error |-> r.error,
                authorization |-> authorization]
    /\ IF r.code = 200
         THEN users' = [users EXCEPT ![caller].is_active = FALSE]
         ELSE UNCHANGED users
    /\ UNCHANGED <<books, loans, now>>

logout(authorization) ==
    LET caller == get_current_user(authorization)
        r == IF require_auth(caller) # Pass THEN require_auth(caller) ELSE Resp(200, "")
    IN
    /\ last' = [op |-> "logout", caller |-> caller, code |-> r.code, error |-> r.error,
                authorization |-> authorization]
    /\ UNCHANGED <<users, books, loans, now>>

-----------------------------------------------------------------------------
(* POST /auth/register, POST /auth/change-password,                          *)
(* POST /users/<id>/reset-password.  The requests of the model carry a       *)
(* first and a last name, and student ids without surrounding blanks.        *)

\* the shortest password the three handlers accept
MinPasswordLength == 6

\* the user row register adds; role is <<>> (absent) or <<value>>
new_user(email, password, student_id, role) ==
    [email |-> lower_strip(email),
     student_id |-> student_id,
     password_hash |-> hash_password(password),
     role |-> IF role = <<>> THEN "STUDENT" ELSE role[1],
     is_active |-> TRUE]

register_response(caller, email, password, student_id, role) ==
    IF require_admin(caller) # Pass THEN require_admin(caller)
    ELSE IF role # <<>> /\ role[1] \notin UserRole
        THEN Resp(500, "Internal Server Error")
    ELSE IF lower_strip(email) = "" \/ password = ""
        THEN Resp(400, "Missing required fields")
    ELSE IF Len(password) < MinPasswordLength THEN Resp(400, "Invalid password")
    ELSE IF encode_raises(password) THEN Resp(500, "Registration failed")
    ELSE IF users_IntegrityError(
                Append(users, new_user(email, password, student_id, role)))
        THEN Resp(409, "User already exists")
    ELSE Resp(201, "")

register(caller, email, password, student_id, role) ==
    LET r == register_response(caller, email, password, student_id, role) IN
    /\ IF r.code = 201
         THEN users' = Append(users, new_user(email, password, student_id, role))
         ELSE UNCHANGED users
    /\ last' = [op |-> "register", caller |-> caller, code |-> r.code,
                error |-> r.error, email |-> email, password |-> password,
                student_id |-> student_id, role |-> role]
    /\ UNCHANGED <<books, loans, now>>

change_password_response(caller, current_password, new_password) ==
    IF require_auth(caller) # Pass THEN require_auth(caller)
    ELSE IF encode_raises(current_password) THEN Resp(500, "Internal Server Error")
    ELSE IF ~verify_password(current_password, users[caller].password_hash)
        THEN Resp(400, "Invalid password")
    ELSE IF Len(new_password) < MinPasswordLength THEN Resp(400, "Invalid password")
    ELSE IF encode_raises(new_password) THEN Resp(500, "Password change failed")
    ELSE Resp(200, "")

change_password(caller, current_password, new_password) ==
    LET r == change_password_response(caller, current_password, new_password) IN
    /\ IF r.code = 200
         THEN users' = [users EXCEPT ![caller].password_hash =
                                         hash_password(new_password)]
         ELSE UNCHANGED users
    /\ last' = [op |-> "change_password", caller |-> caller, code |-> r.code,
                error |-> r.error, current_password |-> current_password,
                new_password |-> new_password]
    /\ UNCHANGED <<books, loans, now>>

\* reset_user_password_response without the length test
reset_user_password_response_NoLengthCheck(caller, user_id, new_password) ==
    IF require_admin(caller) # Pass THEN require_admin(caller)
    ELSE IF user_id \notin UserIds THEN Resp(404, "User not found")
    ELSE IF encode_raises(new_password) THEN Resp(500, "Password reset failed")
    ELSE Resp(200, "")

reset_user_password_response(caller, user_id, new_password) ==
    IF require_admin(caller) # Pass THEN require_admin(caller)
    ELSE IF user_id \notin UserIds THEN Resp(404, "User not found")
    ELSE IF Len(new_password) < MinPasswordLength THEN Resp(400, "Invalid password")
    ELSE IF encode_raises(new_password) THEN Resp(500, "Password reset failed")
    ELSE Resp(200, "")

reset_user_password(caller, user_id, new_password) ==
    LET r == reset_user_password_response(caller, user_id, new_password) IN
    /\ IF r.code = 200
         THEN users' = [users EXCEPT ![user_id].password_hash =
                                         hash_password(new_password)]
         ELSE UNCHANGED users
    /\ last' = [op |-> "reset_password", caller |-> caller, code |-> r.code,
                error |-> r.error, user_id |-> user_id,
                new_password |-> new_password]
    /\ UNCHANGED <<books, loans, now>>

-----------------------------------------------------------------------------
(* The clock: datetime.utcnow() between two requests *)

Tick ==
    /\ now + TickDays <= MaxTime
    /\ now' = now + TickDays
    /\ last' = [op |-> "tick", caller |-> 0, code |-> 0, error |-> ""]
    /\ UNCHANGED <<users, books, loans>>

-----------------------------------------------------------------------------
(* The database after the startup bootstrap (db/bootstrap.py): the default  *)
(* administrator, then the demo students, and a catalog of available books. *)

\* DEMO_STUDENTS[i]["email"], and SAMPLE_BOOKS[i]["barcode"] (a larger catalog
\* continues the numbering of the samples)
demo_email(i) ==
    CASE i = 1 -> "juan.perez@uai.edu"
      [] i = 2 -> "maria.gonzalez@uai.edu"
      [] OTHER -> "carlos.rodriguez@uai.edu"

sample_barcode(i) ==
    CASE i = 1 -> "1234567890128"
      [] i = 2 -> "001001001"
      [] i = 3 -> "002001001"
      [] OTHER -> "00" \o ToString(i) \o "001001"

\* DEMO_STUDENTS[i]["student_id"]
demo_student_id(i) ==
    CASE i = 1 -> "2021001"
      [] i = 2 -> "2021002"
      [] OTHER -> "2021003"

\* SAMPLE_BOOKS[i]["title"]
sample_title(i) ==
    CASE i = 1 -> "El principito"
      [] i = 2 -> "Cien anos de soledad"
      [] i = 3 -> "Clean Code"
      [] OTHER -> "Sample " \o ToString(i)

\* student_id is an Optional column: <<>> is NULL
admin_user ==
    [email |-> ADMIN_EMAIL, student_id |-> <<>>,
     password_hash |-> hash_password(ADMIN_PASSWORD),
     role |-> "ADMIN", is_active |-> TRUE]

demo_student(i) ==
    [email |-> demo_email(i), student_id |-> <<demo_student_id(i)>>,
     password_hash |-> hash_password("student123"),
     role |-> "STUDENT", is_active |-> TRUE]

sample_book(i) ==
    [barcode |-> sample_barcode(i), title |-> sample_title(i),
     status |-> "AVAILABLE", is_active |-> TRUE]

Bootstrapped(nStudents, nBooks) ==
    /\ users = <<admin_user>> \o [i \in 1..nStudents |-> demo_student(i)]
    /\ books = [i \in 1..nBooks |-> sample_book(i)]
    /\ loans = <<>>
    /\ now = 0
    /\ last = [op |-> "init", caller |-> 0, code |-> 0, error |-> ""]

-----------------------------------------------------------------------------
(* The startup bootstrap (db/bootstrap.py, run by create_app) and the seed   *)
(* script (db/init_db.py) on the tables us (users) and bs (books).           *)

ensure_admin_user(us) ==
    IF \E i \in 1..Len(us) : us[i].email = ADMIN_EMAIL THEN us
    ELSE Append(us, admin_user)

\* the users in the session when ensure_demo_students reaches its commit,
\* for the first nStudents entries of DEMO_STUDENTS
ensure_demo_students(us, nStudents) ==
    us \o SelectSeq([i \in 1..nStudents |-> demo_student(i)],
                    LAMBDA d : ~\E j \in 1..Len(us) : us[j].email = d.email)

ensure_sample_books(bs, nBooks) ==
    IF Len(bs) > 0 THEN bs ELSE [i \in 1..nBooks |-> sample_book(i)]

\* the tables after initialize_database, and whether it raised: the admin is
\* committed on its own; the commit of the demo students raises
\* IntegrityError when a new row collides with a stored one, and the
\* bootstrap ends there
initialize_database(us, bs, nStudents, nBooks) ==
    LET ua == ensure_admin_user(us)
        ud == ensure_demo_students(ua, nStudents)
    IN  IF users_IntegrityError(ud)
          THEN [users |-> ua, books |-> bs, error |-> "IntegrityError"]
          ELSE [users |-> ud, books |-> ensure_sample_books(bs, nBooks), error |-> ""]

\* a start of the server process
create_app(nStudents, nBooks) ==
    LET db == initialize_database(users, books, nStudents, nBooks) IN
    /\ users' = db.users
    /\ books' = db.books
    /\ last' = [op |-> "create_app", caller |-> 0, code |-> 0, error |-> db.error]
    /\ UNCHANGED <<loans, now>>

\* create_sample_books(): the extended catalog of the seed script
ExtendedCatalogSize == 23

extended_barcode(i) ==
    CASE i = 1 -> "001001001" [] i = 2 -> "001001002" [] i = 3 -> "001001003"
      [] i = 4 -> "001001004" [] i = 5 -> "001001005" [] i = 6 -> "002001001"
      [] i = 7 -> "002001002" [] i = 8 -> "002001003" [] i = 9 -> "1234567890128"
      [] i = 10 -> "1234567890135" [] i = 11 -> "1234567890142"
      [] i = 12 -> "2234567890123" [] i = 13 -> "2234567890130"
      [] i = 14 -> "2234567890147" [] i = 15 -> "3234567890122"
      [] i = 16 -> "3234567890139" [] i = 17 -> "3234567890146"
      [] i = 18 -> "4234567890121" [] i = 19 -> "4234567890138"
      [] i = 20 -> "4234567890145" [] i = 21 -> "5234567890120"
      [] i = 22 -> "5234567890137" [] OTHER -> "5234567890144"

extended_title(i) ==
    CASE i = 1 -> "Cien anos de soledad" [] i = 2 -> "El tunel"
      [] i = 3 -> "Rayuela" [] i = 4 -> "La casa de los espiritus"
      [] i = 5 -> "Ficciones" [] i = 6 -> "Clean Code"
      [] i = 7 -> "Design Patterns" [] i = 8 -> "Introduction to Algorithms"
      [] i = 9 -> "El principito" [] i = 10 -> "Don Quijote de la Mancha"
      [] i = 11 -> "La Odisea" [] i = 12 -> "1984"
      [] i = 13 -> "El amor en los tiempos del colera"
      [] i = 14 -> "Crimen y Castigo" [] i = 15 -> "Python Crash Course"
      [] i = 16 -> "The Pragmatic Programmer"
      [] i = 17 -> "JavaScript: The Good Parts"
      [] i = 18 -> "Sapiens: De animales a dioses"
      [] i = 19 -> "Como ganar amigos e influir sobre las personas"
      [] i = 20 -> "El codigo Da Vinci"
      [] i = 21 -> "Harry Potter y la piedra filosofal"
      [] i = 22 -> "El senor de los anillos: La comunidad del anillo"
      [] OTHER -> "El arte de la guerra"

create_sample_books ==
    [i \in 1..ExtendedCatalogSize |->
        [barcode |-> extended_barcode(i), title |-> extended_title(i),
         status |-> "AVAILABLE", is_active |-> TRUE]]

\* create_sample_students(): the three demo students
create_sample_students == [i \in 1..3 |-> demo_student(i)]

\* the rows in the session when init_db reaches its commit, on the tables
\* us and bs that create_app has left
init_db_session(us, bs) ==
    [users |-> ensure_admin_user(us)
                 \o (IF \E i \in 1..Len(us) : us[i].role = "STUDENT"
                       THEN <<>> ELSE create_sample_students),
     books |-> IF Len(bs) > 0 THEN bs ELSE create_sample_books]

\* one run of the seed script: create_app() with its bootstrap, then the
\* script's own inserts in one transaction, rolled back when the commit fails
init_db(nStudents, nBooks) ==
    LET db == initialize_database(users, books, nStudents, nBooks)
        se == init_db_session(db.users, db.books)
        failed == db.error # "" \/ users_IntegrityError(se.users)
    IN
    /\ users' = IF failed THEN db.users ELSE se.users
    /\ books' = IF failed THEN db.books ELSE se.books
    /\ last' = [op |-> "init_db", caller |-> 0, code |-> 0,
                error |-> IF failed THEN "IntegrityError" ELSE ""]
    /\ UNCHANGED <<loans, now>>

-----------------------------------------------------------------------------
(* Spec: the loan life cycle.  Every request carries the access token of a  *)
(* stored user and names stored ids.                                        *)

Init == Bootstrapped(NumStudents, NumBooks)

Next ==
    \/ /\ Len(loans) < MaxLoans
       /\ \E c \in UserIds, b \in BookIds, u \in UserIds : rent_book(c, b, u)
    \/ \E c \in UserIds, l \in LoanIds : return_book(c, l)
    \/ \E c \in UserIds, l \in LoanIds, d \in ExtensionDaysInputs :
          extend_loan(c, l, d)
    \/ \E c \in UserIds : get_overdue_loans(c)
    \/ Tick

Spec == Init /\ [][Next]_vars

-----------------------------------------------------------------------------
(* SpecRentLimit: a student at the kiosk rents and returns with their own  *)
(* token, and the administrator lists the overdue loans.                   *)

Admin == 1
Students == UserIds \ {Admin}

InitRentLimit == Bootstrapped(NumStudents, LimitBooks)

NextRentLimit ==
    \/ /\ Len(loans) < LimitLoans
       /\ \E c \in Students, b \in BookIds : rent_book(c, b, c)
    \/ \E c \in Students, l \in LoanIds : return_book(c, l)
    \/ get_overdue_loans(Admin)
    \/ Tick

SpecRentLimit == InitRentLimit /\ [][NextRentLimit]_vars

-----------------------------------------------------------------------------
(* SpecCatalog: the loan life cycle together with the catalog maintenance   *)
(* of the administrator (status update, soft delete).                       *)

InitCatalog == Bootstrapped(NumStudents, CatalogBooks)

NextCatalog ==
    \/ /\ Len(loans) < CatalogLoans
       /\ \E c \in UserIds, b \in BookIds, u \in UserIds : rent_book(c, b, u)
    \/ \E c \in UserIds, l \in LoanIds : return_book(c, l)
    \/ \E c \in UserIds, l \in LoanIds : extend_loan(c, l, <<>>)
    \/ \E c \in UserIds : get_overdue_loans(c)
    \/ \E c \in UserIds, b \in BookIds, s \in StatusInputs : update_book(c, b, <<>>, s)
    \/ \E c \in UserIds, b \in BookIds : delete_book(c, b)
    \/ Tick

SpecCatalog == InitCatalog /\ [][NextCatalog]_vars

-----------------------------------------------------------------------------
(* SpecUsers: user administration (update, deactivate, activate) around the *)
(* loans of the users.                                                      *)

InitUsers == Bootstrapped(NumStudents, UsersBooks)

NextUsers ==
    \/ /\ Len(loans) < UsersLoans
       /\ \E c \in UserIds, b \in BookIds, u \in UserIds : rent_book(c, b, u)
    \/ \E c \in UserIds, l \in LoanIds : return_book(c, l)
    \/ \E c \in UserIds, u \in UserIds, r \in RoleInputs, a \in ActiveInputs :
          update_user(c, u, <<>>, <<>>, r, a)
    \/ \E c \in UserIds, u \in UserIds : deactivate_user(c, u)
    \/ \E c \in UserIds, u \in UserIds : activate_user(c, u)

SpecUsers == InitUsers /\ [][NextUsers]_vars

-----------------------------------------------------------------------------
(* SpecBooks: the catalog as the kiosk reads it (scan, get, list) while the  *)
(* administrator updates and deactivates books and books are rented and     *)
(* returned.  Requests may name a book id or a barcode that is not stored.  *)

BookIdInputs == 1..(Len(books) + 1)
BarcodeInputs == {books[b].barcode : b \in BookIds} \cup {"000000000"}
ListStatusInputs == {<<>>, <<"available">>, <<"maintenance">>, <<"BROKEN">>}

InitBooks == Bootstrapped(NumStudents, ShelfBooks)

NextBooks ==
    \/ /\ Len(loans) < ShelfLoans
       /\ \E c \in UserIds, b \in BookIdInputs : rent_book(c, b, c)
    \/ \E c \in UserIds, l \in LoanIds : return_book(c, l)
    \/ \E c \in UserIds, b \in BookIds, s \in StatusInputs : update_book(c, b, <<>>, s)
    \/ \E c \in UserIds, b \in BookIdInputs : delete_book(c, b)
    \/ \E c \in UserIds, bc \in BarcodeInputs : scan_book(c, bc)
    \/ \E c \in UserIds, b \in BookIdInputs : get_book(c, b)
    \/ \E c \in UserIds, s \in ListStatusInputs : list_books(c, <<>>, <<>>, s)

SpecBooks == InitBooks /\ [][NextBooks]_vars

-----------------------------------------------------------------------------
(* SpecAuth: login, refresh, logout and protected requests.  A request       *)
(* carries no Authorization header, a token the server has signed at some    *)
(* earlier tick of the clock (for a stored user, with the role claim of a    *)
(* login or the missing claim of a refresh), or a token with a bad           *)
(* signature.                                                                *)

IssueTimes == {t \in 0..now : t % AuthTickDays = 0}

\* the token as it was when signed on day t
issued_at(token, t) ==
    [token EXCEPT !.iat = t * 24 * 3600, !.exp = (@ - utcnow) + t * 24 * 3600]

SignedTokens ==
    {issued_at(create_access_token(u, c), t) :
        u \in UserIds, c \in {<<>>, <<"STUDENT">>, <<"ADMIN">>}, t \in IssueTimes}
    \cup {issued_at(create_refresh_token(u), t) : u \in UserIds, t \in IssueTimes}

TokenInputs ==
    SignedTokens \cup {[create_access_token(1, <<"ADMIN">>) EXCEPT !.sig = FALSE]}

BearerInputs == {<<>>} \cup {<<t>> : t \in TokenInputs}

\* g.current_user (0 when the gate finds none) over the requests of the model
CurrentUsers == {get_current_user(a) : a \in BearerInputs}

EmailInputs == {" Admin@UAI.edu ", "juan.perez@uai.edu", "nobody@uai.edu", "  "}
PasswordInputs == {"admin123", "student123", ""}

TickAuth ==
    /\ now + AuthTickDays <= AuthMaxTime
    /\ now' = now + AuthTickDays
    /\ last' = [op |-> "tick", caller |-> 0, code |-> 0, error |-> ""]
    /\ UNCHANGED <<users, books, loans>>

InitAuth == Bootstrapped(NumStudents, AuthBooks)

NextAuth ==
    \/ \E e \in EmailInputs, p \in PasswordInputs : login(e, p)
    \/ \E t \in TokenInputs : refresh(t)
    \/ \E a \in BearerInputs : me(a)
    \/ \E a \in BearerInputs : logout(a)
    \/ /\ Len(loans) < AuthLoans
       /\ \E c \in CurrentUsers, b \in BookIds, u \in UserIds : rent_book(c, b, u)
    \/ \E c \in CurrentUsers, u \in UserIds, r \in {<<"admin">>, <<"STUDENT">>} :
          update_user(c, u, <<>>, <<>>, r, <<>>)
    \/ \E c \in CurrentUsers, u \in UserIds : deactivate_user(c, u)
    \/ \E c \in CurrentUsers, u \in UserIds : activate_user(c, u)
    \/ TickAuth

SpecAuth == InitAuth /\ [][NextAuth]_vars

-----------------------------------------------------------------------------
(* SpecRent: rent requests for stored and unknown books and users, while     *)
(* the administrator deactivates books and users and loans are returned.     *)

UserIdInputs == 1..(Len(users) + 1)

InitRent == Bootstrapped(NumStudents, RentBooks)

NextRent ==
    \/ /\ Len(loans) < RentLoans
       /\ \E c \in UserIds, b \in BookIdInputs, u \in UserIdInputs : rent_book(c, b, u)
    \/ \E c \in UserIds, l \in LoanIds : return_book(c, l)
    \/ \E b \in BookIds : delete_book(Admin, b)
    \/ \E u \in UserIds : deactivate_user(Admin, u)
    \/ \E u \in UserIds : activate_user(Admin, u)

SpecRent == InitRent /\ [][NextRent]_vars

-----------------------------------------------------------------------------
(* SpecAccess: the loans API as a user reads and changes loans, the own and  *)
(* those of the other user.                                                  *)

LoanIdInputs == 1..(Len(loans) + 1)
UserFilterInputs == {<<>>, <<0>>} \cup {<<u>> : u \in UserIds}
BookFilterInputs == {<<>>} \cup {<<b>> : b \in BookIds}
LoanStatusInputs == {<<>>, <<"active">>, <<"LOST">>}

InitAccess == Bootstrapped(NumStudents, AccessBooks)

NextAccess ==
    \/ /\ Len(loans) < AccessLoans
       /\ \E c \in UserIds, b \in BookIds, u \in UserIds : rent_book(c, b, u)
    \/ \E c \in UserIds, l \in LoanIds : return_book(c, l)
    \/ \E c \in UserIds, l \in LoanIds : extend_loan(c, l, <<>>)
    \/ \E c \in UserIds, u \in UserFilterInputs, b \in BookFilterInputs :
          list_active_loans(c, u, b)
    \/ \E c \in UserIds, l \in LoanIdInputs : get_loan(c, l)
    \/ \E c \in UserIds, u \in UserIdInputs, s \in LoanStatusInputs :
          get_user_loans(c, u, s)

SpecAccess == InitAccess /\ [][NextAccess]_vars

-----------------------------------------------------------------------------
(* SpecPages: the catalog is listed page by page while the administrator     *)
(* deactivates books.                                                        *)

\* request values of "page" and "per_page"
PageInputs == {<<>>, <<2>>, <<3>>}
PerPageInputs == {<<>>, <<2>>, <<0 - 2>>, <<150>>}

\* the active book with the highest id
LastActiveBook == {b \in BookIds : /\ books[b].is_active
                                    /\ \A o \in BookIds : books[o].is_active => o <= b}

InitPages == Bootstrapped(NumStudents, PageBooks)

NextPages ==
    \/ \E c \in Students, pg \in PageInputs, pp \in PerPageInputs,
          s \in {<<>>, <<"BROKEN">>} : list_books(c, pg, pp, s)
    \/ \E b \in LastActiveBook : delete_book(Admin, b)

SpecPages == InitPages /\ [][NextPages]_vars

-----------------------------------------------------------------------------
(* SpecKiosk: a book is rented, extended by a day count the request may      *)
(* give, listed as overdue and returned, and the kiosk scans and gets it.    *)

\* request values of "extension_days": absent, 0, a positive and a negative
\* number of days
KioskExtensionDays == {<<>>, <<0>>, <<3>>, <<0 - 3>>}

InitKiosk == Bootstrapped(NumStudents, KioskBooks)

NextKiosk ==
    \/ /\ Len(loans) < KioskLoans
       /\ \E c \in UserIds, b \in BookIds : rent_book(c, b, c)
    \/ \E c \in UserIds, l \in LoanIds, d \in KioskExtensionDays :
          extend_loan(c, l, d)
    \/ \E c \in UserIds, l \in LoanIds : return_book(c, l)
    \/ get_overdue_loans(Admin)
    \/ \E c \in UserIds, bc \in BarcodeInputs : scan_book(c, bc)
    \/ \E c \in UserIds, b \in BookIdInputs : get_book(c, b)
    \/ Tick

SpecKiosk == InitKiosk /\ [][NextKiosk]_vars

-----------------------------------------------------------------------------
(* SpecAccounts: logins with known and unknown emails and right, wrong and   *)
(* undecodable passwords, while users are registered, deactivated and given  *)
(* new passwords.                                                            *)

LoginEmails == {" Admin@UAI.edu ", "juan.perez@uai.edu", "nobody@uai.edu"}
LoginPasswords == {"admin123", "student123", "secret", "<ud800>secret", ""}
CurrentPasswords == {"admin123", "student123", "secret"}
NewPasswords == {"secre", "secret"}
RegisterEmails == {" Ana.Soto@UAI.edu ", "juan.perez@uai.edu"}
RegisterRoles == {<<>>, <<"ADMIN">>, <<"TEACHER">>}

InitAccounts == Bootstrapped(NumStudents, AccountsBooks)

NextAccounts ==
    \/ \E e \in LoginEmails, p \in LoginPasswords : login(e, p)
    \/ /\ Len(users) < AccountsUsers
       /\ \E c \in UserIds, e \in RegisterEmails, p \in NewPasswords,
             r \in RegisterRoles : register(c, e, p, <<>>, r)
    \/ \E c \in UserIds, cp \in CurrentPasswords, np \in NewPasswords :
          change_password(c, cp, np)
    \/ \E c \in UserIds, u \in UserIdInputs, np \in NewPasswords :
          reset_user_password(c, u, np)
    \/ \E u \in UserIds : deactivate_user(Admin, u)
    \/ \E u \in UserIds : activate_user(Admin, u)

SpecAccounts == InitAccounts /\ [][NextAccounts]_vars

-----------------------------------------------------------------------------
(* SpecStartup: from the empty database, the server is started (and started  *)
(* again) and the seed script is run, while the administrator registers and  *)
(* edits users.                                                              *)

EmailEdits == {<<>>, <<" Ana.Soto@UAI.edu ">>}
StudentIdEdits == {<<>>, <<"2021001">>}
RoleEdits == {<<>>, <<"admin">>}
ActiveEdits == {<<>>, <<FALSE>>}

InitStartup ==
    /\ users = <<>>
    /\ books = <<>>
    /\ loans = <<>>
    /\ now = 0
    /\ last = [op |-> "init", caller |-> 0, code |-> 0, error |-> ""]

NextStartup ==
    \/ /\ Len(initialize_database(users, books, StartupStudents, StartupBooks).users)
             <= StartupUsers
       /\ create_app(StartupStudents, StartupBooks)
    \/ /\ Len(init_db_session(
                 initialize_database(users, books, StartupStudents, StartupBooks).users,
                 books).users) <= StartupUsers
       /\ init_db(StartupStudents, StartupBooks)
    \/ /\ Len(users) < StartupUsers
       /\ \E e \in RegisterEmails, sid \in StudentIdEdits, r \in RegisterRoles :
             register(Admin, e, "secret1", sid, r)
    \/ \E u \in UserIds, e \in EmailEdits, sid \in StudentIdEdits,
          r \in RoleEdits, a \in ActiveEdits : update_user(Admin, u, e, sid, r, a)

SpecStartup == InitStartup /\ [][NextStartup]_vars

-----------------------------------------------------------------------------
(* Error responses of the handlers that create and update users and books:
   register, update_user, change_password, reset_user_password (short
   passwords only), create_book and update_book, with valid and invalid
   requests *)

TitleEdits == {<<>>, <<"Algebra">>}
StatusEdits == {<<>>, <<"maintenance">>, <<"BROKEN">>}
NewTitles == {"", "Algebra"}
NewBarcodes == {"1234567890128", "000000009"}
UnknownRoleEdits == {<<>>, <<"TEACHER">>}
ShortPasswords == {"secre"}

InitErrors == Bootstrapped(NumStudents, ErrorsBooks)

NextErrors ==
    \/ /\ Len(users) < ErrorsUsers
       /\ \E c \in UserIds, e \in RegisterEmails, p \in NewPasswords,
             r \in UnknownRoleEdits : register(c, e, p, <<>>, r)
    \/ \E c \in UserIds, u \in UserIdInputs, e \in EmailEdits,
          sid \in StudentIdEdits, r \in UnknownRoleEdits :
          update_user(c, u, e, sid, r, <<>>)
    \/ \E c \in UserIds, cp \in CurrentPasswords, np \in ShortPasswords :
          change_password(c, cp, np)
    \/ \E c \in UserIds, u \in UserIdInputs, np \in ShortPasswords :
          reset_user_password(c, u, np)
    \/ /\ Len(books) < ErrorsBooksMax
       /\ \E c \in UserIds, t \in NewTitles, bc \in NewBarcodes : create_book(c, t, bc)
    \/ \E c \in UserIds, b \in BookIdInputs, t \in TitleEdits, s \in StatusEdits :
          update_book(c, b, t, s)

SpecErrors == InitErrors /\ [][NextErrors]_vars

-----------------------------------------------------------------------------
(* Barcodes: the handlers that write the catalog *)

CreateBarcodes == {"1234567890128", " 1234567890128 ", "000000009", "000000010", "  "}

InitBarcodes == Bootstrapped(NumStudents, BarcodeBooks)

NextBarcodes ==
    \/ /\ Len(books) < BarcodeBooksMax
       /\ \E c \in UserIds, t \in NewTitles, bc \in CreateBarcodes :
             create_book(c, t, bc)
    \/ \E c \in UserIds, b \in BookIdInputs, t \in TitleEdits, s \in StatusEdits :
          update_book(c, b, t, s)
    \/ \E c \in UserIds, b \in BookIdInputs : delete_book(c, b)

SpecBarcodes == InitBarcodes /\ [][NextBarcodes]_vars

-----------------------------------------------------------------------------
(* Concurrent requests: two workers, each handling one request at a time in
   its own database session. A handler first reads and checks (the begin
   actions), and later commits what its session holds (the commit actions);
   the other worker may run between the two. The requests in flight are kept in last.in_flight. *)

Slots == {1, 2}

Idle == [op |-> "none", pc |-> "idle"]

InFlight ==
    IF "in_flight" \in DOMAIN last THEN last.in_flight ELSE [i \in Slots |-> Idle]

\* worker i is between two requests
Free(i) == InFlight[i].pc \in {"idle", "done"}

\* the record of a step of worker i whose request is now r
Stepped(i, r) ==
    [op |-> r.op, caller |-> r.caller, code |-> r.code, error |-> r.error,
     in_flight |-> [InFlight EXCEPT ![i] = r]]

\* rent_book up to its try block: the gate, the book and user lookups, the
\* loan count and the duplicate test, all read from the committed tables
begin_rent(i, caller, book_id, user_id) ==
    LET r == rent_response(caller, book_id, user_id) IN
    /\ Free(i)
    /\ last' = Stepped(i, [op |-> "rent", caller |-> caller, book_id |-> book_id,
                           user_id |-> user_id,
                           pc |-> IF r.code = 201 THEN "checked" ELSE "done",
                           code |-> IF r.code = 201 THEN 0 ELSE r.code,
                           error |-> r.error])
    /\ UNCHANGED <<users, books, loans, now>>

\* the try block of rent_book: INSERT of the loan and UPDATE of the book's
\* status, committed without another look at the tables
commit_rent(i) ==
    LET r == InFlight[i] IN
    /\ r.op = "rent" /\ r.pc = "checked"
    /\ loans' = Append(loans, new_loan(r.caller, r.book_id, r.user_id))
    /\ books' = [books EXCEPT ![r.book_id].status = "LOANED"]
    /\ last' = Stepped(i, [r EXCEPT !.pc = "done", !.code = 201])
    /\ UNCHANGED <<users, now>>

\* return_book up to its try block: the loan read into the session and the
\* owner and status tests on it
begin_return(i, caller, loan_id) ==
    LET r == return_response(caller, loan_id) IN
    /\ Free(i)
    /\ last' = Stepped(i, [op |-> "return", caller |-> caller, loan_id |-> loan_id,
                           pc |-> IF r.code = 200 THEN "checked" ELSE "done",
                           code |-> IF r.code = 200 THEN 0 ELSE r.code,
                           error |-> r.error])
    /\ UNCHANGED <<users, books, loans, now>>

\* the try block of return_book: UPDATE loans SET status, return_date,
\* returned_by and UPDATE books SET status for the loan's book
commit_return(i) ==
    LET r == InFlight[i] IN
    /\ r.op = "return" /\ r.pc = "checked"
    /\ loans' = [loans EXCEPT ![r.loan_id] = Loan_return_book(@, r.caller)]
    /\ books' = [books EXCEPT ![loans[r.loan_id].book_id] = Book_returned(@)]
    /\ last' = Stepped(i, [r EXCEPT !.pc = "done", !.code = 200])
    /\ UNCHANGED <<users, now>>

\* extend_loan up to its try block: the loan read into the session and the
\* owner and can_extend tests on it; the session keeps the row it read
begin_extend(i, caller, loan_id, days) ==
    LET r == extend_response(caller, loan_id) IN
    /\ Free(i)
    /\ last' = Stepped(i, [op |-> "extend", caller |-> caller, loan_id |-> loan_id,
                           days |-> days,
                           loan |-> IF r.code = 200 THEN <<loans[loan_id]>> ELSE <<>>,
                           pc |-> IF r.code = 200 THEN "checked" ELSE "done",
                           code |-> IF r.code = 200 THEN 0 ELSE r.code,
                           error |-> r.error])
    /\ UNCHANGED <<users, books, loans, now>>

\* the try block of extend_loan: Loan.extend_loan on the row the session
\* read, then UPDATE loans SET due_date, extensions_count, status with the
\* values computed from that row
commit_extend(i) ==
    LET r == InFlight[i]
        extended == Loan_extend_loan(r.loan[1], r.days)
    IN
    /\ r.op = "extend" /\ r.pc = "checked"
    /\ loans' = [loans EXCEPT ![r.loan_id].due_date = extended.due_date,
                              ![r.loan_id].extensions_count = extended.extensions_count,
                              ![r.loan_id].status = extended.status]
    /\ last' = Stepped(i, [r EXCEPT !.pc = "done", !.code = 200])
    /\ UNCHANGED <<users, books, now>>

InitConcurrent == Bootstrapped(NumStudents, ConcurrentBooks)

NextConcurrent ==
    \/ /\ Len(loans) < ConcurrentLoans
       /\ \E i \in Slots, c \in UserIds, b \in BookIds : begin_rent(i, c, b, c)
    \/ \E i \in Slots : commit_rent(i)
    \/ \E i \in Slots, c \in UserIds, l \in LoanIds : begin_return(i, c, l)
    \/ \E i \in Slots : commit_return(i)
    \/ \E i \in Slots, c \in UserIds, l \in LoanIds : begin_extend(i, c, l, <<>>)
    \/ \E i \in Slots : commit_extend(i)

SpecConcurrent == InitConcurrent /\ [][NextConcurrent]_vars

-----------------------------------------------------------------------------
(* Properties *)

NonTerminalLoansOf(user_id) ==
    {i \in LoanIds : loans[i].user_id = user_id /\ loans[i].status \in NonTerminal}

\* the caller of a loan request is the borrower or an administrator, and active
Authorized(caller, l) ==
    /\ users[caller].is_active
    /\ (l.user_id = caller \/ users[caller].role = "ADMIN")

\* C1: each user holds at most MAX_BOOKS_PER_USER loans in status ACTIVE,
\* EXTENDED or OVERDUE (so a rent for a user at the limit creates no loan),
\* over any sequence of rent, return and overdue-listing requests.
C1_LoanLimit ==
    \A u \in UserIds : Cardinality(NonTerminalLoansOf(u)) <= MAX_BOOKS_PER_USER

\* C2: no user has two loans in status ACTIVE, EXTENDED or OVERDUE on the same
\* book, over any sequence of loan and catalog operations.
C2_OneOpenLoanPerUserAndBook ==
    \A i, j \in LoanIds :
        (/\ i # j
         /\ loans[i].user_id = loans[j].user_id
         /\ loans[i].book_id = loans[j].book_id
         /\ loans[i].status \in NonTerminal)
        => loans[j].status \notin NonTerminal

\* C3: each book whose status is LOANED is referenced by exactly one loan whose
\* status is ACTIVE.
C3_LoanedBookHasOneActiveLoan ==
    \A b \in BookIds :
        books[b].status = "LOANED" =>
            Cardinality({i \in LoanIds : /\ loans[i].book_id = b
                                         /\ loans[i].status = "ACTIVE"}) = 1

\* C4: a return request by the borrower or an administrator on a loan in
\* status ACTIVE, EXTENDED or OVERDUE is answered 200, leaves the loan RETURNED
\* with a return date and the caller as returner, and leaves the loan's book
\* AVAILABLE; a return request on a RETURNED loan changes nothing and is
\* answered 400 (403 when the caller is neither the borrower nor an
\* administrator).
C4_Return ==
    [][last'.op = "return" =>
        LET l == last'.loan_id
            c == last'.caller
        IN  /\ (loans[l].status \in NonTerminal /\ Authorized(c, loans[l])) =>
                 /\ last'.code = 200
                 /\ Len(loans') = Len(loans)
                 /\ loans'[l].status = "RETURNED"
                 /\ loans'[l].return_date # NoDate
                 /\ loans'[l].returned_by = c
                 /\ books'[loans[l].book_id].status = "AVAILABLE"
            /\ loans[l].status = "RETURNED" =>
                 /\ last'.code = IF Authorized(c, loans[l]) THEN 400 ELSE 403
                 /\ UNCHANGED <<users, books, loans>>
      ]_vars

\* C4 witness: the administrator has returned a loan of another user
C4_Witness ==
    /\ last.op = "return"
    /\ last.code = 200
    /\ loans[last.loan_id].status = "RETURNED"
    /\ loans[last.loan_id].user_id # last.caller
    /\ loans[last.loan_id].returned_by = last.caller
    /\ loans[last.loan_id].extensions_count = 1
    /\ books[loans[last.loan_id].book_id].status = "AVAILABLE"

\* C5: once a loan is RETURNED, no later operation changes its status, due
\* date, extension counter, return date, returner, borrower or book.
C5_ReturnedIsFinal ==
    [][\A i \in LoanIds :
          loans[i].status = "RETURNED" =>
              /\ i <= Len(loans')
              /\ loans'[i].status = "RETURNED"
              /\ loans'[i].due_date = loans[i].due_date
              /\ loans'[i].extensions_count = loans[i].extensions_count
              /\ loans'[i].return_date = loans[i].return_date
              /\ loans'[i].returned_by = loans[i].returned_by
              /\ loans'[i].user_id = loans[i].user_id
              /\ loans'[i].book_id = loans[i].book_id
      ]_vars

\* C5 witness: an extend request by the borrower has just been refused on a
\* RETURNED loan whose book has been rented again
C5_Witness ==
    /\ last.op = "extend"
    /\ last.code = 400
    /\ loans[last.loan_id].status = "RETURNED"
    /\ loans[last.loan_id].user_id = last.caller
    /\ \E j \in LoanIds : /\ j > last.loan_id
                          /\ loans[j].book_id = loans[last.loan_id].book_id

\* C6: an ACTIVE loan with 0 extensions that is not overdue can be extended; a
\* loan stays extendable until its counter reaches MAX_EXTENSIONS, and is then
\* refused with 400 citing the maximum; a loan whose due date has passed is
\* refused.
C6_ExtendableUntilMax ==
    [][last'.op = "extend" =>
        LET l == loans[last'.loan_id]
            c == last'.caller
        IN  Authorized(c, l) =>
              /\ (/\ l.status \in {"ACTIVE", "EXTENDED"}
                  /\ l.extensions_count < MAX_EXTENSIONS
                  /\ now <= l.due_date) => last'.code = 200
              /\ (l.status # "RETURNED" /\ l.extensions_count >= MAX_EXTENSIONS) =>
                    /\ last'.code = 400
                    /\ \E k \in 1..Len(last'.reasons) :
                          last'.reasons[k] = "maximum extensions (2) reached"
              /\ (l.status # "RETURNED" /\ now > l.due_date) => last'.code = 400
      ]_vars

\* C7: an extend request on a loan whose status is EXTENDED is answered 400
\* (403 for a caller who is neither borrower nor administrator) and changes
\* nothing; a successful extend starts from counter 0, no counter decreases,
\* and no counter exceeds 1.
C7_ExtendedOnce ==
    [][/\ \A i \in 1..Len(loans') : loans'[i].extensions_count <= 1
       /\ \A i \in LoanIds : loans'[i].extensions_count >= loans[i].extensions_count
       /\ last'.op = "extend" =>
            LET l == loans[last'.loan_id]
                c == last'.caller
            IN  /\ l.status = "EXTENDED" =>
                     /\ last'.code = IF Authorized(c, l) THEN 400 ELSE 403
                     /\ UNCHANGED <<users, books, loans>>
                /\ last'.code = 200 => l.extensions_count = 0
      ]_vars

\* C7 witness: the borrower's extend request has just been refused on a loan
\* that is EXTENDED, not overdue, and below MAX_EXTENSIONS
C7_Witness ==
    /\ last.op = "extend"
    /\ last.code = 400
    /\ last.reasons = <<"loan status is EXTENDED">>
    /\ loans[last.loan_id].status = "EXTENDED"
    /\ loans[last.loan_id].extensions_count = 1
    /\ loans[last.loan_id].user_id = last.caller
    /\ now <= loans[last.loan_id].due_date

\* C8: every loan's extension counter is between 0 and MAX_EXTENSIONS.
C8_ExtensionsBounded ==
    \A i \in LoanIds : /\ loans[i].extensions_count >= 0
                       /\ loans[i].extensions_count <= MAX_EXTENSIONS

\* C8 witness: a loan has just been extended
C8_Witness ==
    /\ last.op = "extend"
    /\ last.code = 200
    /\ loans[last.loan_id].extensions_count = 1

\* C9: the overdue listing returns exactly the loans in status ACTIVE or
\* EXTENDED whose due date is earlier than now, in ascending due-date order;
\* afterwards each of them is OVERDUE and is otherwise unchanged, and every
\* other loan and every book is unchanged.
C9_OverdueListing ==
    [][(last'.op = "overdue" /\ last'.code = 200) =>
        LET q == last'.overdue_loans
            due == {i \in LoanIds : /\ loans[i].status \in {"ACTIVE", "EXTENDED"}
                                    /\ loans[i].due_date < now}
        IN  /\ {q[k] : k \in 1..Len(q)} = due
            /\ Len(q) = Cardinality(due)
            /\ \A k \in 1..(Len(q) - 1) :
                  loans[q[k]].due_date <= loans[q[k + 1]].due_date
            /\ Len(loans') = Len(loans)
            /\ \A i \in due : loans'[i] = [loans[i] EXCEPT !.status = "OVERDUE"]
            /\ \A i \in LoanIds \ due : loans'[i] = loans[i]
            /\ UNCHANGED <<users, books>>
      ]_vars

\* C9 witness: the listing has returned an ACTIVE and an EXTENDED loan with
\* different due dates, both now OVERDUE
C9_Witness ==
    /\ last.op = "overdue"
    /\ last.code = 200
    /\ Len(last.overdue_loans) = 2
    /\ loans[last.overdue_loans[1]].due_date < loans[last.overdue_loans[2]].due_date
    /\ loans[last.overdue_loans[1]].extensions_count = 0
    /\ loans[last.overdue_loans[2]].extensions_count = 1
    /\ \A k \in 1..2 : loans[last.overdue_loans[k]].status = "OVERDUE"

\* C10: no inactive user holds a loan in status ACTIVE, EXTENDED or OVERDUE (a
\* user's active flag never goes from true to false while the user holds one).
C10_InactiveUserHoldsNoLoan ==
    \A u \in UserIds : ~users[u].is_active => NonTerminalLoansOf(u) = {}

\* C11: deactivating a book whose status is LOANED is answered 400 and changes
\* nothing; deactivating an AVAILABLE book leaves it inactive with status
\* MAINTENANCE; an inactive book never becomes active again, is never the
\* book of a successful scan, get-by-id or listing, and is never rented.
C11_DeactivatedBookIsGone ==
    [][/\ \A b \in BookIds : ~books[b].is_active => ~books'[b].is_active
       /\ (/\ last'.op = "delete_book"
           /\ last'.book_id \in BookIds
           /\ require_admin(last'.caller) = Pass) =>
             LET b == last'.book_id IN
             /\ books[b].status = "LOANED" =>
                   /\ last'.code = 400
                   /\ UNCHANGED <<users, books, loans>>
             /\ books[b].status = "AVAILABLE" =>
                   /\ last'.code = 200
                   /\ ~books'[b].is_active
                   /\ books'[b].status = "MAINTENANCE"
                   /\ \A o \in BookIds \ {b} : books'[o] = books[o]
                   /\ UNCHANGED <<users, loans>>
       /\ (last'.op \in {"scan", "get_book"} /\ last'.code = 200) =>
             /\ books[last'.book_id].is_active
             /\ last'.book = books[last'.book_id]
       /\ (last'.op = "list_books" /\ last'.code = 200) =>
             \A k \in 1..Len(last'.books) : books[last'.books[k]].is_active
       /\ (last'.op = "rent" /\ last'.code = 201) =>
             books[last'.book_id].is_active
      ]_vars

\* C11 witness: the scan of the barcode of a deactivated book has just been
\* answered 404
C11_Witness ==
    /\ last.op = "scan"
    /\ last.code = 404
    /\ \E b \in BookIds : /\ books[b].barcode = last.barcode
                          /\ ~books[b].is_active
                          /\ books[b].status = "MAINTENANCE"

\* C12: every book whose active flag is false has status MAINTENANCE.
C12_InactiveBookInMaintenance ==
    \A b \in BookIds : ~books[b].is_active => books[b].status = "MAINTENANCE"

\* the protected operations of SpecAuth, and the admin-only operations
ProtectedOps ==
    {"me", "logout", "rent", "update_user", "deactivate_user", "activate_user"}
AdminOnlyOps ==
    {"update_user", "deactivate_user", "activate_user", "update_book",
     "delete_book", "overdue"}

\* C13: while a user is inactive, a login with the user's email and correct
\* password is answered 401, and every protected request that bears a token
\* of that user (whenever and however it was issued) is answered 401 and
\* changes nothing.
C13_InactiveUserLockedOut ==
    [][/\ \A a \in BearerInputs :
             (/\ a # <<>>
              /\ a[1].user_id \in UserIds
              /\ ~users[a[1].user_id].is_active)
             => require_auth(get_current_user(a)).code = 401
       /\ last'.op = "login" =>
             LET user == user_by_email(lower_strip(last'.email)) IN
             (/\ user # 0
              /\ ~users[user].is_active
              /\ verify_password(last'.password, users[user].password_hash))
             => last'.code = 401
       /\ (/\ last'.op \in {"me", "logout"}
           /\ last'.authorization # <<>>
           /\ last'.authorization[1].user_id \in UserIds
           /\ ~users[last'.authorization[1].user_id].is_active)
          => last'.code = 401
       /\ (/\ last'.op \in ProtectedOps
           /\ (last'.caller \notin UserIds \/ ~users[last'.caller].is_active))
          => /\ last'.code = 401
             /\ UNCHANGED <<users, books, loans>>
      ]_vars

\* C13 witness: a protected request bearing a signed, unexpired access token
\* issued by the refresh endpoint has just been answered 401 because the
\* account is deactivated
C13_Witness ==
    /\ last.op = "me"
    /\ last.code = 401
    /\ last.error = "Account deactivated"
    /\ last.authorization # <<>>
    /\ last.authorization[1].sig
    /\ last.authorization[1].type = "access"
    /\ last.authorization[1].role = ""
    /\ last.authorization[1].exp > utcnow
    /\ ~users[last.authorization[1].user_id].is_active

\* C18: a request answered 401 or 403 changes no user, book or loan, and an
\* admin-only operation requested by a caller whose stored role is not ADMIN
\* is answered 401 or 403 and changes nothing, whatever role the caller's
\* token claims.
C18_GatesProtect ==
    [][/\ last'.code \in {401, 403} => UNCHANGED <<users, books, loans>>
       /\ (/\ last'.op \in AdminOnlyOps
           /\ (last'.caller \notin UserIds \/ users[last'.caller].role # "ADMIN"))
          => /\ last'.code \in {401, 403}
             /\ UNCHANGED <<users, books, loans>>
       /\ \A a \in BearerInputs :
             (a # <<>> /\ users[a[1].user_id].role # "ADMIN")
             => require_admin(get_current_user(a)) # Pass
      ]_vars

\* C18 witness: the former administrator, now stored as STUDENT, has just been
\* refused an admin-only operation
C18_Witness ==
    /\ last.op = "deactivate_user"
    /\ last.code = 403
    /\ last.caller = 1
    /\ users[1].role = "STUDENT"
    /\ users[1].is_active

\* C19: the refresh endpoint answers 200 exactly for a signed, unexpired token
\* of type refresh, and then returns an access token for the same user id; it
\* answers 401 otherwise, in particular for an access token; a refresh token
\* sent as bearer credential authenticates nobody.
C19_TokenTypes ==
    [][/\ last'.op = "refresh" =>
             LET t == last'.refresh_token IN
             /\ last'.code = 200 <=> (t.sig /\ t.type = "refresh" /\ t.exp > utcnow)
             /\ last'.code # 200 => last'.code = 401
             /\ last'.code = 200 =>
                   /\ last'.access_token.sig
                   /\ last'.access_token.type = "access"
                   /\ last'.access_token.user_id = t.user_id
       /\ (/\ last'.op \in {"me", "logout"}
           /\ last'.authorization # <<>>
           /\ last'.authorization[1].type = "refresh")
          => last'.code = 401
       /\ \A t \in TokenInputs : t.type = "refresh" => get_current_user(<<t>>) = 0
      ]_vars

\* C19 witness: the refresh endpoint has just issued an access token for a
\* refresh token signed at an earlier tick
C19_Witness ==
    /\ last.op = "refresh"
    /\ last.code = 200
    /\ last.refresh_token.iat < utcnow
    /\ last.access_token.user_id = last.refresh_token.user_id
    /\ get_current_user(<<last.access_token>>) = last.refresh_token.user_id

\* C20: a logout changes no user, book or loan; after a logout answered 200
\* the token it bore still authenticates the same user, and every token
\* refreshes as it did before.
C20_LogoutStateless ==
    [][last'.op = "logout" =>
         /\ UNCHANGED <<users, books, loans, now>>
         /\ last'.code = 200 =>
               /\ \A a \in BearerInputs :
                     a = last'.authorization =>
                        /\ get_current_user(a)' = last'.caller
                        /\ require_auth(get_current_user(a))' = Pass
               /\ \A t \in TokenInputs :
                     refresh_access_token(t)' = refresh_access_token(t)
      ]_vars

\* C20 witness: a student has just logged out with the access token of a login
C20_Witness ==
    /\ last.op = "logout"
    /\ last.code = 200
    /\ last.authorization[1].role = "STUDENT"
    /\ users[last.caller].role = "STUDENT"
    /\ \E t \in TokenInputs : /\ t.user_id = last.caller
                               /\ refresh_access_token(t) # <<>>

\* the book and the target user of a rent request allow a loan
RentTargetsValid(book_id, user_id) ==
    /\ book_id \in BookIds
    /\ books[book_id].is_active
    /\ books[book_id].status = "AVAILABLE"
    /\ user_id \in UserIds
    /\ users[user_id].is_active

\* C14 as stated: a rent request creates a loan only when the book exists, is
\* active and AVAILABLE and the target user exists and is active; in every
\* other case it answers 404 or 400 and leaves users, books and loans
\* unchanged.
C14_RentOnlyWhenValid ==
    [][last'.op = "rent" =>
         /\ loans' # loans => RentTargetsValid(last'.book_id, last'.user_id)
         /\ ~RentTargetsValid(last'.book_id, last'.user_id) =>
               /\ last'.code \in {404, 400}
               /\ UNCHANGED <<users, books, loans>>
      ]_vars

\* C14 amended: a rent request creates a loan only when the book exists, is
\* active and AVAILABLE and the target user exists and is active; in every
\* other case it leaves users, books and loans unchanged, and it answers 404
\* (book or user missing or inactive) or 400 (book not AVAILABLE) when the
\* caller is authenticated and is the target user or an administrator, 401 or
\* 403 otherwise.
C14_RentOnlyWhenValid_Amended ==
    [][last'.op = "rent" =>
         LET b == last'.book_id
             u == last'.user_id
             c == last'.caller
         IN
         /\ loans' # loans => RentTargetsValid(b, u)
         /\ ~RentTargetsValid(b, u) =>
               /\ UNCHANGED <<users, books, loans>>
               /\ IF require_student_or_admin(c) # Pass THEN last'.code = 401
                  ELSE IF u # c /\ users[c].role # "ADMIN" THEN last'.code = 403
                  ELSE IF b \notin BookIds THEN last'.code = 404
                  ELSE IF ~books[b].is_active THEN last'.code = 404
                  ELSE IF books[b].status # "AVAILABLE" THEN last'.code = 400
                  ELSE last'.code = 404
      ]_vars

\* C14 witness: the administrator's rent for a deactivated user and an
\* available book has just been answered 404
C14_Witness ==
    /\ last.op = "rent"
    /\ last.code = 404
    /\ last.error = "User not found"
    /\ users[last.caller].role = "ADMIN"
    /\ last.user_id \in UserIds
    /\ ~users[last.user_id].is_active
    /\ is_available(books[last.book_id])

\* C15: a rent answered 201 appends exactly one loan: ACTIVE, counter 0, no
\* return date, borrower the target user, creator the caller, loan date now
\* and due date = loan date + DEFAULT_LOAN_DAYS; it sets the rented book
\* LOANED and changes no other book, no other loan and no user.
C15_RentCreatesLoan ==
    [][(last'.op = "rent" /\ last'.code = 201) =>
         LET n == loans'[Len(loans')]
             b == last'.book_id
         IN
         /\ Len(loans') = Len(loans) + 1
         /\ \A i \in LoanIds : loans'[i] = loans[i]
         /\ n.status = "ACTIVE"
         /\ n.extensions_count = 0
         /\ n.return_date = NoDate
         /\ n.returned_by = NoUser
         /\ n.user_id = last'.user_id
         /\ n.book_id = b
         /\ n.created_by = last'.caller
         /\ n.loan_date = now
         /\ n.due_date = n.loan_date + DEFAULT_LOAN_DAYS
         /\ n.due_date >= n.loan_date
         /\ books'[b] = [books[b] EXCEPT !.status = "LOANED"]
         /\ \A o \in BookIds \ {b} : books'[o] = books[o]
         /\ UNCHANGED users
      ]_vars

\* C15 witness: the administrator has just rented a second book for a student
C15_Witness ==
    /\ last.op = "rent"
    /\ last.code = 201
    /\ last.caller # last.user_id
    /\ Len(loans) = 2
    /\ loans[2].created_by = last.caller
    /\ loans[2].user_id = last.user_id
    /\ books[last.book_id].status = "LOANED"

\* C16: the list-active-loans response to a caller whose role is not ADMIN
\* contains only loans whose borrower is the caller, whatever the filters.
C16_ActiveListOwnLoansOnly ==
    [][(/\ last'.op = "list_active"
        /\ last'.code = 200
        /\ users[last'.caller].role # "ADMIN") =>
          \A k \in 1..Len(last'.loans) :
              loans[last'.loans[k]].user_id = last'.caller
      ]_vars

\* C17: for an authenticated caller who is not an administrator, a rent with
\* another target user, a return, extend or get-by-id of a loan of another
\* user, and a list-by-user of another user id are each answered 403 and
\* change nothing.
C17_OwnLoansOnly ==
    [][LET c == last'.caller IN
       (/\ last'.op \in {"rent", "return", "extend", "get_loan", "user_loans"}
        /\ require_student_or_admin(c) = Pass
        /\ users[c].role # "ADMIN") =>
          /\ (last'.op \in {"rent", "user_loans"} /\ last'.user_id # c) =>
                /\ last'.code = 403
                /\ UNCHANGED <<users, books, loans>>
          /\ (/\ last'.op \in {"return", "extend", "get_loan"}
              /\ last'.loan_id \in LoanIds
              /\ loans[last'.loan_id].user_id # c) =>
                /\ last'.code = 403
                /\ UNCHANGED <<users, books, loans>>
      ]_vars

\* C17 witness: a student's return of the administrator's open loan has just
\* been answered 403
C17_Witness ==
    /\ last.op = "return"
    /\ last.code = 403
    /\ users[last.caller].role = "STUDENT"
    /\ loans[last.loan_id].user_id # last.caller
    /\ loans[last.loan_id].status \in NonTerminal

\* C23: a run of the startup bootstrap completes without error, whatever the
\* administrator has edited before, and a second run right after it changes
\* nothing.
C23_BootstrapIdempotent ==
    [][last'.op = "create_app" =>
         /\ last'.error = ""
         /\ initialize_database(users', books', StartupStudents, StartupBooks)
               = [users |-> users', books |-> books', error |-> ""]
      ]_vars

\* C24: the seed script run on a database without books leaves the extended
\* catalog of create_sample_books in the book table; run on a database with
\* books it adds no book.
C24_SeedCatalog ==
    [][last'.op = "init_db" =>
         /\ Len(books) = 0 => books' = create_sample_books
         /\ Len(books) > 0 => books' = books
      ]_vars

\* C27: every stored user email equals its own lower-cased, trimmed form.
C27_EmailsNormalized ==
    \A u \in UserIds : users[u].email = lower_strip(users[u].email)

\* C21: for any password, the login response (status and error) for an email
\* of an existing account given a password that is not the account's equals
\* the response for an email that has no account.
C21_LoginHidesAccounts ==
    [][last'.op = "login" =>
         LET user == user_by_email(lower_strip(last'.email)) IN
         (user # 0 /\ ~verify_password(last'.password, users[user].password_hash))
         => Resp(last'.code, last'.error)
              = login_response("nobody@uai.edu", last'.password)
      ]_vars

\* the request passes require_admin
IsAdminCaller(c) == c \in UserIds /\ users[c].is_active /\ users[c].role = "ADMIN"

\* C22: register, change-password and reset-password with a new password
\* shorter than 6 characters create no user and change no password hash, and
\* answer 400 when the caller is authorized, the role (if any) is a known one
\* and the target user exists; with a new password of exactly 6 characters
\* and the other inputs valid, register answers 201 and adds the user,
\* change-password and reset-password answer 200, and the stored hash then
\* verifies the new password.
C22_PasswordLength ==
    [][/\ last'.op = "register" =>
            LET c == last'.caller
                pw == last'.password
                valid == /\ IsAdminCaller(c)
                         /\ (last'.role = <<>> \/ last'.role[1] \in UserRole)
            IN
            /\ Len(pw) < 6 => UNCHANGED users
            /\ (Len(pw) < 6 /\ valid) => last'.code = 400
            /\ (/\ Len(pw) = 6
                /\ valid
                /\ user_by_email(lower_strip(last'.email)) = 0) =>
                  /\ last'.code = 201
                  /\ Len(users') = Len(users) + 1
                  /\ \A u \in UserIds : users'[u] = users[u]
                  /\ verify_password(pw, users'[Len(users')].password_hash)
       /\ last'.op = "change_password" =>
            LET c == last'.caller
                pw == last'.new_password
            IN
            /\ Len(pw) < 6 => UNCHANGED users
            /\ (Len(pw) < 6 /\ require_auth(c) = Pass) => last'.code = 400
            /\ (/\ Len(pw) = 6
                /\ require_auth(c) = Pass
                /\ verify_password(last'.current_password, users[c].password_hash)) =>
                  /\ last'.code = 200
                  /\ verify_password(pw, users'[c].password_hash)
       /\ last'.op = "reset_password" =>
            LET c == last'.caller
                pw == last'.new_password
                u == last'.user_id
            IN
            /\ Len(pw) < 6 => UNCHANGED users
            /\ (Len(pw) < 6 /\ IsAdminCaller(c) /\ u \in UserIds) => last'.code = 400
            /\ (Len(pw) = 6 /\ IsAdminCaller(c) /\ u \in UserIds) =>
                  /\ last'.code = 200
                  /\ verify_password(pw, users'[u].password_hash)
      ]_vars

\* C22 witness: a student has just changed their password to one of exactly
\* 6 characters
C22_Witness ==
    /\ last.op = "change_password"
    /\ last.code = 200
    /\ Len(last.new_password) = 6
    /\ users[last.caller].role = "STUDENT"
    /\ verify_password(last.new_password, users[last.caller].password_hash)
    /\ ~verify_password(last.current_password, users[last.caller].password_hash)

\* C28: a successful scan or get-by-id of a book whose status is LOANED and
\* which has a loan in status ACTIVE, EXTENDED or OVERDUE returns such a loan
\* of the book as current_loan.
C28_CurrentLoanShown ==
    [][(last'.op \in {"scan", "get_book"} /\ last'.code = 200) =>
         LET b == last'.book_id
             open == {i \in LoanIds : /\ loans[i].book_id = b
                                      /\ loans[i].status \in NonTerminal}
         IN  (books[b].status = "LOANED" /\ open # {}) => last'.current_loan \in open
      ]_vars

\* C29: a successful extend moves the due date strictly later: by
\* EXTENSION_DAYS when the request gives no day count, by the day count when
\* it gives a positive one; it adds exactly 1 to the extension counter and
\* sets the status EXTENDED, whatever integer the day count is.
C29_ExtendMovesDueDateLater ==
    [][(last'.op = "extend" /\ last'.code = 200) =>
         LET l == last'.loan_id
             d == last'.days
         IN  /\ loans'[l].due_date > loans[l].due_date
             /\ d = <<>> => loans'[l].due_date = loans[l].due_date + 7
             /\ (d # <<>> /\ d[1] > 0) =>
                   loans'[l].due_date = loans[l].due_date + d[1]
             /\ loans'[l].extensions_count = loans[l].extensions_count + 1
             /\ loans'[l].status = "EXTENDED"
      ]_vars

\* the page and the page size a listing request asks for (absent: 1 and 20),
\* and the number of active books it selects from
RequestedPage == IF last.page_requested = <<>> THEN 1 ELSE last.page_requested[1]
RequestedPageSize ==
    IF last.per_page_requested = <<>> THEN 20 ELSE last.per_page_requested[1]
ActiveBookCount == Cardinality({b \in BookIds : books[b].is_active})

max(a, b) == IF a > b THEN a ELSE b

\* the response of a successful book listing follows the pagination
\* arithmetic for page p, requested size s and N active books
PaginationHolds(p, s, N) ==
    LET size == min(s, 100)
    IN  /\ last.per_page = size
        /\ Len(last.books) = min(size, max(0, N - (p - 1) * size))
        /\ last.total = N
        /\ (last.pages - 1) * size < N /\ N <= last.pages * size
        /\ last.has_next = (p < last.pages)
        /\ last.has_prev = (p > 1)

\* C30 (as stated): for a book listing with page p >= 1 and any requested
\* page size s over N active books, the effective page size is min(s, 100),
\* the response holds min(size, max(0, N - (p-1)*size)) items, total = N,
\* pages = ceil(N / size), has_next = (p < pages) and has_prev = (p > 1).
C30_Pagination ==
    (last.op = "list_books" /\ last.code = 200 /\ RequestedPage >= 1) =>
        PaginationHolds(RequestedPage, RequestedPageSize, ActiveBookCount)

\* C30 (amended): the same for a requested page size s >= 1.
C30_Pagination_Amended ==
    (/\ last.op = "list_books" /\ last.code = 200
     /\ RequestedPage >= 1 /\ RequestedPageSize >= 1) =>
        PaginationHolds(RequestedPage, RequestedPageSize, ActiveBookCount)

\* N = 5, p = 1, s = 2 gives 2 items, total 5, pages 3, a next page and no
\* previous one
C30_Witness ==
    /\ last.op = "list_books" /\ last.code = 200
    /\ ActiveBookCount = 5 /\ RequestedPage = 1
    /\ last.per_page_requested = <<2>>
    /\ Len(last.books) = 2 /\ last.total = 5 /\ last.pages = 3
    /\ last.has_next /\ ~last.has_prev

ErrorStatus == {400, 401, 403, 404, 409, 500}

\* C25: a request other than the overdue listing that is answered with an
\* error status (400, 401, 403, 404, 409 or 500) leaves users, books and
\* loans as they were, also when an update sets several fields and then
\* fails the validation of a later one.
C25_ErrorsChangeNothing ==
    [][(last'.code \in ErrorStatus /\ last'.op # "overdue") =>
          UNCHANGED <<users, books, loans>>]_vars

\* an admin's update of an existing user with a new email, a student id and
\* an unknown role was answered 400
C25_Witness ==
    /\ last.op = "update_user" /\ last.code = 400
    /\ last.error = "Invalid role"
    /\ last.email # <<>> /\ last.student_id # <<>>
    /\ users[last.user_id].email # last.email[1]

\* C26: a request that carries an unrecognized role (register, user update)
\* or an unrecognized status (book update), sent by an active admin for an
\* existing user or book, is answered 400 and changes nothing.
C26_UnknownValuesRejected ==
    [][(/\ IsAdminCaller(last'.caller)
        /\ \/ /\ last'.op = "register"
              /\ last'.role # <<>> /\ upper(last'.role[1]) \notin UserRole
           \/ /\ last'.op = "update_user" /\ last'.user_id \in UserIds
              /\ last'.role # <<>> /\ upper(last'.role[1]) \notin UserRole
           \/ /\ last'.op = "update_book" /\ last'.book_id \in BookIds
              /\ last'.status # <<>> /\ upper(last'.status[1]) \notin BookStatus)
       => (last'.code = 400 /\ UNCHANGED <<users, books, loans>>)]_vars

UniqueBarcodes ==
    \A i, j \in BookIds : books[i].barcode = books[j].barcode => i = j

\* C31: no two books, active or inactive, share a barcode; an admin's create
\* request with title and author whose barcode is the barcode of a stored
\* book is answered 409 and leaves the catalog unchanged; no step changes the
\* barcode of a stored book.
C31_BarcodesUnique ==
    /\ []UniqueBarcodes
    /\ [][/\ (/\ last'.op = "create_book" /\ IsAdminCaller(last'.caller)
               /\ strip(last'.title) # ""
               /\ \E b \in BookIds : books[b].barcode = strip(last'.barcode))
              => (last'.code = 409 /\ UNCHANGED books)
           /\ Len(books') >= Len(books)
           /\ \A b \in BookIds : books'[b].barcode = books[b].barcode
         ]_vars

\* an admin's create request with the barcode of a stored book, sent with
\* surrounding blanks, was answered 409 in a catalog of two books of which
\* one is inactive
C31_Witness ==
    /\ last.op = "create_book" /\ last.code = 409
    /\ last.barcode = " 1234567890128 "
    /\ Len(books) = 2
    /\ \E b \in BookIds : ~books[b].is_active

\* C32: across one step a stored loan keeps its status or moves along one
\* edge: ACTIVE to EXTENDED by extend, ACTIVE or EXTENDED to OVERDUE by the
\* overdue listing, ACTIVE, EXTENDED or OVERDUE to RETURNED by return.
C32_StatusEdges ==
    [][\A l \in LoanIds :
         \/ loans'[l].status = loans[l].status
         \/ /\ loans[l].status = "ACTIVE" /\ loans'[l].status = "EXTENDED"
            /\ last'.op = "extend"
         \/ /\ loans[l].status \in {"ACTIVE", "EXTENDED"}
            /\ loans'[l].status = "OVERDUE"
            /\ last'.op = "overdue"
         \/ /\ loans[l].status \in {"ACTIVE", "EXTENDED", "OVERDUE"}
            /\ loans'[l].status = "RETURNED"
            /\ last'.op = "return"
      ]_vars

\* a return has succeeded while another loan is EXTENDED
C32_Witness ==
    /\ last.op = "return" /\ last.code = 200
    /\ \E l \in LoanIds : loans[l].status = "EXTENDED"
    /\ \E l \in LoanIds : loans[l].status = "RETURNED"

\* C33: a book is referenced by at most one loan in status ACTIVE, EXTENDED
\* or OVERDUE, and a book referenced by such a loan is not AVAILABLE.
C33_OneOpenLoanPerBook ==
    \A b \in BookIds :
        LET open == {l \in LoanIds : /\ loans[l].book_id = b
                                      /\ loans[l].status \in NonTerminal}
        IN  /\ Cardinality(open) <= 1
            /\ open # {} => books[b].status # "AVAILABLE"

\* C34: with the checks and the commits of two rent requests for the same
\* AVAILABLE book interleaved, at most one creates a loan: no book has two
\* loans in status ACTIVE, EXTENDED or OVERDUE.
C34_OneRentWins ==
    \A b \in BookIds :
        Cardinality({l \in LoanIds : /\ loans[l].book_id = b
                                      /\ loans[l].status \in NonTerminal}) <= 1

\* C35: when a return and an extend of the same loan have both been answered
\* 200, the loan is RETURNED and its book AVAILABLE.
C35_ReturnWins ==
    \A i, j \in Slots :
        (/\ InFlight[i].op = "return" /\ InFlight[j].op = "extend"
         /\ InFlight[i].pc = "done" /\ InFlight[j].pc = "done"
         /\ InFlight[i].code = 200 /\ InFlight[j].code = 200
         /\ InFlight[i].loan_id = InFlight[j].loan_id)
        => /\ loans[InFlight[i].loan_id].status = "RETURNED"
           /\ books[loans[InFlight[i].loan_id].book_id].status = "AVAILABLE"

\* C36: a loan has a return date exactly when its status is RETURNED, and
\* every RETURNED loan names the user who returned it.
C36_ReturnDateIffReturned ==
    \A l \in LoanIds :
        /\ (loans[l].return_date # NoDate) <=> (loans[l].status = "RETURNED")
        /\ loans[l].status = "RETURNED" => loans[l].returned_by \in UserIds

\* a returned loan next to an overdue one
C36_Witness ==
    /\ \E l \in LoanIds : /\ loans[l].status = "RETURNED"
                           /\ loans[l].return_date # NoDate
                           /\ loans[l].returned_by \in UserIds
    /\ \E l \in LoanIds : /\ loans[l].status = "OVERDUE"
                           /\ loans[l].return_date = NoDate

\* C37: every successful overdue listing returns every loan that is not
\* RETURNED and whose due date has passed, also a loan that an earlier
\* listing has set OVERDUE.
C37_OverdueListingComplete ==
    [][(last'.op = "overdue" /\ last'.code = 200) =>
         \A l \in LoanIds :
             (loans[l].status # "RETURNED" /\ loans[l].due_date < now) =>
                 \E k \in 1..Len(last'.overdue_loans) : last'.overdue_loans[k] = l
      ]_vars

\* C38: in every state reached through the user-management operations some
\* user is active and has role ADMIN.
C38_ActiveAdminExists ==
    \E u \in UserIds : users[u].is_active /\ users[u].role = "ADMIN"

====
